---- MODULE Spec2Model ----
(***************************************************************************)
(* Verification model of the arbitrage bot: the order book, the book       *)
(* update appliers of both venues, the walk-the-book fill simulator, the   *)
(* delay backtest of replay_v2.py and the live two-leg coordinator.        *)
(*                                                                         *)
(* Units.  Prices are integer cents (0.40 dollars is 40).  Sizes are       *)
(* integers in a size unit far above 1e-9, so the test `size > 1e-9` of    *)
(* replay_v2.py and the test `size <= 0` of order_book.py agree on every   *)
(* size of the model.  Average prices and profits are exact rationals      *)
(* [n, d] in lowest terms.                                                 *)
(***************************************************************************)
EXTENDS Integers, Sequences, FiniteSets, TLC

VARIABLES
    impl,          \* which OrderBook class and appliers a book-level run exercises
    order_books,   \* market id -> OrderBook (the dict order_books / ALL_ORDER_BOOKS)
    last_op,       \* the last book operation performed and what it returned
    \* --- replay_v2.py: run_normal_mode / run_delay_mode ---
    mode,              \* ANALYSIS_MODE of the run: "normal" or "delay" ("none": no replay)
    delay,             \* the delay of the simulated run, in timestamp ticks
    pc,                \* position in the body of the loop over the log
    log_idx,           \* number of log entries read so far
    current_ts,        \* log_entry['parsed_ts'] of the entry being processed
    log_entry,         \* the entry being processed
    applied,           \* number of log entries handed to process_log_entry so far
    scheduled_trades,  \* the heap of (execution_ts, opportunity)
    totals,            \* total_trades, total_profit, total_volume, total_fees
    TRADE_ID_COUNTER,  \* global trade id of normal mode
    csv_rows,          \* rows written to the trades CSV (normal) or the summary CSV (delay)
    execs,             \* the two-leg executions performed by the last step
    last_push,         \* the last scheduling performed
    parsed_lines,      \* the log held in memory by a run over all the delays
    \* --- main_trader.py / trader.py: the live trader ---
    now,                      \* time.time(), in seconds since the trader started
    LAST_GAME_TRADE_ATTEMPT,  \* game key -> time of the last attempt
    queue,                    \* message_queue: (source, message) in arrival order
    tasks,                    \* the execute_complimentary_buy_trade tasks not yet ended
    poly_id,                  \* the module global poly_id of trader.py ("unset": not bound)
    attempts,                 \* every attempt started: game, trigger and time
    last_done,                \* the task that ended last, with what it submitted
    run_state                 \* how far run_trader and asyncio.run are, and what they dropped

book_vars == <<impl, order_books, last_op>>
replay_vars == <<mode, delay, pc, log_idx, current_ts, log_entry, applied, scheduled_trades,
                 totals, TRADE_ID_COUNTER, csv_rows, execs, last_push>>
live_vars == <<now, LAST_GAME_TRADE_ATTEMPT, queue, tasks, poly_id, attempts, last_done>>
sweep_vars == <<parsed_lines>>
shutdown_vars == <<run_state>>
vars == <<book_vars, replay_vars, live_vars, sweep_vars, shutdown_vars>>

-----------------------------------------------------------------------------
(* Bounds and input sets *)

MaxLevelSize == 2
MaxWalkSize == 5
MaxLog == 4
MaxQueue == 2
MaxElapsed == 10

\* Price levels of the book-level runs (crossed books included).  Kalshi quotes
\* `no` at 100 - price, so the set is closed under that.
Prices == {40, 50, 60}
Sizes == 0..MaxLevelSize
Deltas == (0 - MaxLevelSize)..MaxLevelSize
BookSides == {"bid", "ask"}
WalkSizes == (0 - 1)..MaxWalkSize

\* One side of a snapshot message, as the list of (price, size) the venue sends:
\* empty, levels in either order, a zero-size level, and a price quoted twice.
SnapshotLevelLists ==
    { <<>>,
      << <<50, MaxLevelSize>>, <<40, 1>> >>,
      << <<40, 1>>, <<50, 1>>, <<60, MaxLevelSize>> >>,
      << <<60, MaxLevelSize>>, <<60, 0>>, <<50, 1>> >> }

-----------------------------------------------------------------------------
(* Arithmetic helpers *)

Min2(a, b) == IF a <= b THEN a ELSE b
Max2(a, b) == IF a >= b THEN a ELSE b
Abs(a) == IF a < 0 THEN 0 - a ELSE a

RECURSIVE GCD(_, _)
GCD(a, b) == IF b = 0 THEN a ELSE GCD(b, a % b)

\* The rational n/d (d > 0) in lowest terms.
Rat(n, d) ==
    LET g == GCD(Abs(n), d) IN
    IF n = 0 THEN [n |-> 0, d |-> 1] ELSE [n |-> n \div g, d |-> d \div g]

RatAdd(x, y) == Rat(x.n * y.d + y.n * x.d, x.d * y.d)
RatSub(x, y) == Rat(x.n * y.d - y.n * x.d, x.d * y.d)
RatScale(x, k) == Rat(x.n * k, x.d)
RatLess(x, y) == x.n * y.d < y.n * x.d
RatZero == [n |-> 0, d |-> 1]

\* ceil(a / b) for a >= 0, b > 0 (math.ceil on a non-negative quotient).
CeilDiv(a, b) == (a + b - 1) \div b

MinOf(S) == CHOOSE x \in S : \A y \in S : x <= y
MaxOf(S) == CHOOSE x \in S : \A y \in S : x >= y

RECURSIVE SortedAsc(_)
SortedAsc(S) == IF S = {} THEN <<>> ELSE <<MinOf(S)>> \o SortedAsc(S \ {MinOf(S)})

RECURSIVE SortedDesc(_)
SortedDesc(S) == IF S = {} THEN <<>> ELSE <<MaxOf(S)>> \o SortedDesc(S \ {MaxOf(S)})

-----------------------------------------------------------------------------
(* Python dict / SortedDict as a function with a finite domain *)

EmptyMap == [k \in {} |-> 0]
MapSet(m, k, v) == [x \in (DOMAIN m) \cup {k} |-> IF x = k THEN v ELSE m[x]]
MapDel(m, k) == [x \in (DOMAIN m) \ {k} |-> m[x]]
MapGet(m, k, dflt) == IF k \in DOMAIN m THEN m[k] ELSE dflt

-----------------------------------------------------------------------------
(* order_book.py: class OrderBook (dict based; the bid keys are prices) *)

OrderBook_init == [bids |-> EmptyMap, asks |-> EmptyMap]

\* Variant: the level is stored whatever its size.
OB_update_book_level_nocheck(book, side, price, size) ==
    IF side = "bid" THEN [book EXCEPT !.bids = MapSet(@, price, size)]
                    ELSE [book EXCEPT !.asks = MapSet(@, price, size)]

\* OrderBook._update_book_level: size <= 0 removes the level, else stores it.
OB_update_book_level(book, side, price, size) ==
    IF size <= 0
    THEN IF side = "bid" THEN [book EXCEPT !.bids = MapDel(@, price)]
                         ELSE [book EXCEPT !.asks = MapDel(@, price)]
    ELSE IF side = "bid" THEN [book EXCEPT !.bids = MapSet(@, price, size)]
                         ELSE [book EXCEPT !.asks = MapSet(@, price, size)]

\* Variant: sorted() without reverse=True.
OB_bids_ascending(book) ==
    LET ps == SortedAsc(DOMAIN book.bids) IN
    [i \in 1..Len(ps) |-> <<ps[i], book.bids[ps[i]]>>]

\* OrderBook.bids / OrderBook.asks: sorted() over the dict items.
OB_bids(book) ==
    LET ps == SortedDesc(DOMAIN book.bids) IN
    [i \in 1..Len(ps) |-> <<ps[i], book.bids[ps[i]]>>]

OB_asks(book) ==
    LET ps == SortedAsc(DOMAIN book.asks) IN
    [i \in 1..Len(ps) |-> <<ps[i], book.asks[ps[i]]>>]

\* None is modelled as 0 (no level is ever stored at price 0 by a best-price query's caller).
None == 0
OB_highest_bid(book) == IF DOMAIN book.bids = {} THEN None ELSE MaxOf(DOMAIN book.bids)
OB_lowest_ask(book) == IF DOMAIN book.asks = {} THEN None ELSE MinOf(DOMAIN book.asks)
OB_get_liquidity_at_price(book, price, side) ==
    IF side = "bid" THEN MapGet(book.bids, price, 0) ELSE MapGet(book.asks, price, 0)

-----------------------------------------------------------------------------
(* replay_v2.py: class OrderBook (SortedDict based; the bid keys are negated prices) *)

\* OrderBook._update_book_level: size > 1e-9 stores the level, else removes it.
\* eps is 1e-9 in the unit the sizes are counted in.
V2_update_level(eps, book, side, price, size) ==
    LET key == IF side = "bid" THEN 0 - price ELSE price IN
    IF size > eps
    THEN IF side = "bid" THEN [book EXCEPT !.bids = MapSet(@, key, size)]
                         ELSE [book EXCEPT !.asks = MapSet(@, key, size)]
    ELSE IF side = "bid" THEN [book EXCEPT !.bids = MapDel(@, key)]
                         ELSE [book EXCEPT !.asks = MapDel(@, key)]

\* Sizes counted in whole contracts: 1e-9 is less than one unit, and a size is
\* above 1e-9 exactly when it is above 0.
WholeContracts == 0

V2_update_book_level(book, side, price, size) ==
    V2_update_level(WholeContracts, book, side, price, size)

\* Variant: the bid keys are read as if they were not negated (lowest price first).
V2_bids_lowest_first(book) ==
    LET ks == SortedDesc(DOMAIN book.bids) IN
    [i \in 1..Len(ks) |-> <<0 - ks[i], book.bids[ks[i]]>>]

\* bids: ((-price, size) for price, size in self._bids.items()), keys ascending.
V2_bids(book) ==
    LET ks == SortedAsc(DOMAIN book.bids) IN
    [i \in 1..Len(ks) |-> <<0 - ks[i], book.bids[ks[i]]>>]

V2_asks(book) ==
    LET ks == SortedAsc(DOMAIN book.asks) IN
    [i \in 1..Len(ks) |-> <<ks[i], book.asks[ks[i]]>>]

V2_highest_bid(book) ==
    IF DOMAIN book.bids = {} THEN None ELSE 0 - MinOf(DOMAIN book.bids)
\* Variant: the last key of the asks instead of the first.
V2_lowest_ask_last(book) ==
    IF DOMAIN book.asks = {} THEN None ELSE MaxOf(DOMAIN book.asks)

\* lowest_ask: self._asks.peekitem(0)[0], None when there is no ask.
V2_lowest_ask(book) ==
    IF DOMAIN book.asks = {} THEN None ELSE MinOf(DOMAIN book.asks)

-----------------------------------------------------------------------------
(* Venue A (Polymarket) appliers *)

RECURSIVE OB_apply_levels(_, _, _)
OB_apply_levels(book, side, levels) ==
    IF levels = <<>> THEN book
    ELSE OB_apply_levels(OB_update_book_level(book, side, levels[1][1], levels[1][2]),
                         side, Tail(levels))

RECURSIVE V2_apply_levels(_, _, _)
V2_apply_levels(book, side, levels) ==
    IF levels = <<>> THEN book
    ELSE V2_apply_levels(V2_update_book_level(book, side, levels[1][1], levels[1][2]),
                         side, Tail(levels))

\* Variant: the sides the other way round.
PolySide_swapped(side) == IF side = "BUY" THEN "ask" ELSE "bid"

\* side_to_update: BUY is the bid side, SELL the ask side.
PolySide(side) == IF side = "BUY" THEN "bid" ELSE "ask"

RECURSIVE OB_apply_changes(_, _)
OB_apply_changes(book, changes) ==
    IF changes = <<>> THEN book
    ELSE OB_apply_changes(
            IF changes[1].side \in {"BUY", "SELL"}
            THEN OB_update_book_level(book, PolySide(changes[1].side),
                                      changes[1].price, changes[1].size)
            ELSE book,
            Tail(changes))

RECURSIVE V2_apply_changes(_, _)
V2_apply_changes(book, changes) ==
    IF changes = <<>> THEN book
    ELSE V2_apply_changes(
            V2_update_book_level(book, PolySide(changes[1].side),
                                 changes[1].price, changes[1].size),
            Tail(changes))

\* polymarket/recreate.py: update_polymarket_order_book (used by replay.py).
update_polymarket_order_book(book, data) ==
    IF data.event_type = "book"
    THEN OB_apply_levels(OB_apply_levels(OrderBook_init, "bid", data.bids), "ask", data.asks)
    ELSE IF data.event_type = "delta"
    THEN OB_apply_changes(book, data.changes)
    ELSE book

\* replay_v2.py: robust_update_polymarket_order_book.
robust_update_polymarket_order_book(book, data) ==
    IF data.event_type = "book"
    THEN V2_apply_levels(V2_apply_levels(OrderBook_init, "bid", data.bids), "ask", data.asks)
    ELSE IF data.event_type = "delta"
    THEN V2_apply_changes(book, data.changes)
    ELSE book

-----------------------------------------------------------------------------
(* Venue B (Kalshi) appliers.  price_cents / 100.0 is the price in cents     *)
(* itself; round(1.0 - price_cents / 100.0, 2) is 100 - price_cents.          *)

NoToYes(price_cents) == 100 - price_cents

RECURSIVE MapLevels(_)
MapLevels(levels) ==
    IF levels = <<>> THEN <<>>
    ELSE << <<NoToYes(levels[1][1]), levels[1][2]>> >> \o MapLevels(Tail(levels))

\* kalshi/recreate.py: update_kalshi_order_book (used by replay.py).
update_kalshi_order_book(book, data) ==
    IF data.kind = "snapshot"
    THEN OB_apply_levels(OB_apply_levels(OrderBook_init, "bid", data.yes),
                         "ask", MapLevels(data.no))
    ELSE IF data.side = "yes"
    THEN OB_update_book_level(book, "bid", data.price,
            OB_get_liquidity_at_price(book, data.price, "bid") + data.delta)
    ELSE IF data.side = "no"
    THEN OB_update_book_level(book, "ask", NoToYes(data.price),
            OB_get_liquidity_at_price(book, NoToYes(data.price), "ask") + data.delta)
    ELSE book

\* replay_v2.py: robust_update_kalshi_order_book.
robust_update_kalshi_order_book(book, data) ==
    IF data.kind = "snapshot"
    THEN V2_apply_levels(V2_apply_levels(OrderBook_init, "bid", data.yes),
                         "ask", MapLevels(data.no))
    ELSE IF data.side = "yes"
    THEN V2_update_book_level(book, "bid", data.price,
            MapGet(book.bids, 0 - data.price, 0) + data.delta)
    ELSE IF data.side = "no"
    THEN V2_update_book_level(book, "ask", NoToYes(data.price),
            MapGet(book.asks, NoToYes(data.price), 0) + data.delta)
    ELSE book

\* Variant: a book message is applied on top of the levels already stored.
updates_update_polymarket_order_book_noclear(book, data) ==
    IF data.event_type = "book"
    THEN OB_apply_levels(OB_apply_levels(book, "bid", data.bids), "ask", data.asks)
    ELSE IF data.event_type = "price_change"
    THEN OB_apply_changes(book, data.changes)
    ELSE book

\* polymarket/updates.py: update_polymarket_order_book, for a message whose
\* asset_id is the book's market_id.
updates_update_polymarket_order_book(book, data) ==
    IF data.event_type = "book"
    THEN OB_apply_levels(OB_apply_levels(OrderBook_init, "bid", data.bids), "ask", data.asks)
    ELSE IF data.event_type = "price_change"
    THEN OB_apply_changes(book, data.changes)
    ELSE book

\* kalshi/updates.py: update_kalshi_order_book, for a message whose
\* market_ticker is the book's market_id.  A delta on `yes` adds to the size
\* read from _asks and writes the bid; a delta on `no` adds to the size read
\* from _bids and writes the ask.
updates_update_kalshi_order_book(book, data) ==
    IF data.kind = "orderbook_snapshot"
    THEN OB_apply_levels(OB_apply_levels(OrderBook_init, "bid", data.yes),
                         "ask", MapLevels(data.no))
    ELSE IF data.kind = "orderbook_delta"
    THEN IF data.side = "yes"
         THEN OB_update_book_level(book, "bid", data.price,
                    MapGet(book.asks, data.price, 0) + data.delta)
         ELSE IF data.side = "no"
         THEN OB_update_book_level(book, "ask", NoToYes(data.price),
                    MapGet(book.bids, NoToYes(data.price), 0) + data.delta)
         ELSE book
    ELSE book

\* src/kalshi_updates.py: update_kalshi_order_book (imported by test_compare.py),
\* for a message whose market_ticker is the book's market_id.  A `no` quote is
\* stored on the ask side at its own price.
kalshi_updates_update_kalshi_order_book(book, data) ==
    IF data.kind = "orderbook_snapshot"
    THEN OB_apply_levels(OB_apply_levels(OrderBook_init, "bid", data.yes), "ask", data.no)
    ELSE IF data.kind = "orderbook_delta"
    THEN IF data.side = "yes"
         THEN OB_update_book_level(book, "bid", data.price,
                    MapGet(book.bids, data.price, 0) + data.delta)
         ELSE IF data.side = "no"
         THEN OB_update_book_level(book, "ask", data.price,
                    MapGet(book.asks, data.price, 0) + data.delta)
         ELSE book
    ELSE book

-----------------------------------------------------------------------------
(* Walking the book.  The result is [book, avg, size]: the mutated book, the *)
(* average price (a rational in cents, 0 when nothing filled) and the size   *)
(* executed.                                                                 *)

WalkResult(book, total_cost, size_executed) ==
    [book |-> book,
     avg  |-> IF size_executed > 0 THEN Rat(total_cost, size_executed) ELSE RatZero,
     size |-> size_executed]

\* Variant: the walk writes the level it consumed on the other side.
HitSide_flipped(side_to_hit) == IF side_to_hit = "bid" THEN "ask" ELSE "bid"

\* 'bid' if side_to_hit == 'bid' else 'ask' (replay_v2.py line 155).
HitSide(side_to_hit) == IF side_to_hit = "bid" THEN "bid" ELSE "ask"

\* The for loop of execute_trade_on_book (replay_v2.py lines 152-158).
RECURSIVE V2_walk(_, _, _, _, _, _, _)
V2_walk(eps, book, side, levels, size_executed, total_cost, remaining_size) ==
    IF levels = <<>> \/ remaining_size <= eps
    THEN WalkResult(book, total_cost, size_executed)
    ELSE LET price == levels[1][1]
             available_size == levels[1][2]
             size_at_this_level == Min2(remaining_size, available_size)
         IN V2_walk(eps,
                V2_update_level(eps, book, HitSide(side), price,
                                available_size - size_at_this_level),
                side, Tail(levels),
                size_executed + size_at_this_level,
                total_cost + size_at_this_level * price,
                remaining_size - size_at_this_level)

V2_walk_loop(book, side, levels, size_executed, total_cost, remaining_size) ==
    V2_walk(WholeContracts, book, side, levels, size_executed, total_cost, remaining_size)

\* replay_v2.py: execute_trade_on_book.
V2_execute_trade(eps, book, side_to_hit, size_to_trade) ==
    IF size_to_trade <= 0 THEN WalkResult(book, 0, 0)
    ELSE V2_walk(eps, book, side_to_hit,
                 IF side_to_hit = "ask" THEN V2_asks(book) ELSE V2_bids(book),
                 0, 0, size_to_trade)

V2_execute_trade_on_book(book, side_to_hit, size_to_trade) ==
    V2_execute_trade(WholeContracts, book, side_to_hit, size_to_trade)

\* The for loop of execute_trade_on_book (replay.py lines 115-119).
RECURSIVE OB_walk(_, _, _, _, _, _, _)
OB_walk(eps, book, side, levels, size_executed, total_cost, remaining_size) ==
    IF levels = <<>> \/ remaining_size <= eps
    THEN WalkResult(book, total_cost, size_executed)
    ELSE LET price == levels[1][1]
             available_size == levels[1][2]
             size_at_this_level == Min2(remaining_size, available_size)
         IN OB_walk(eps,
                OB_update_book_level(book, side, price, available_size - size_at_this_level),
                side, Tail(levels),
                size_executed + size_at_this_level,
                total_cost + size_at_this_level * price,
                remaining_size - size_at_this_level)

OB_walk_loop(book, side, levels, size_executed, total_cost, remaining_size) ==
    OB_walk(WholeContracts, book, side, levels, size_executed, total_cost, remaining_size)

\* replay.py: execute_trade_on_book.
OB_execute_trade(eps, book, side_to_hit, size_to_trade) ==
    LET levels_to_hit == IF side_to_hit = "ask" THEN OB_asks(book) ELSE OB_bids(book) IN
    IF size_to_trade <= 0 THEN WalkResult(book, 0, 0)
    ELSE IF levels_to_hit = <<>> THEN WalkResult(book, 0, 0)
    ELSE OB_walk(eps, book, side_to_hit, levels_to_hit, 0, 0, size_to_trade)

OB_execute_trade_on_book(book, side_to_hit, size_to_trade) ==
    OB_execute_trade(WholeContracts, book, side_to_hit, size_to_trade)

-----------------------------------------------------------------------------
(* Markets: MARKET_MAPPING maps a canonical name to one market id per venue *)

Markets == {"A", "B"}
MARKET_MAPPING ==
    [m \in Markets |->
        IF m = "A" THEN [polymarket |-> "pA", kalshi |-> "kA"]
                   ELSE [polymarket |-> "pB", kalshi |-> "kB"]]
BookIds == {"pA", "kA", "pB", "kB"}

\* order_books = {}; one OrderBook per mapped market id.
InitOrderBooks == [id \in BookIds |-> OrderBook_init]

-----------------------------------------------------------------------------
(* Book-level specification: any sequence of snapshots, deltas and walks on  *)
(* one OrderBook, for each of the two OrderBook classes.                     *)

\* The appliers and OrderBook class of a run: "legacy" is polymarket/recreate.py
\* and kalshi/recreate.py on order_book.py (replay.py), "v2" is replay_v2.py,
\* "live" is polymarket/updates.py and kalshi/updates.py on order_book.py
\* (main_trader.py), "kalshi_updates" is src/kalshi_updates.py on order_book.py.
Impls == {"legacy", "v2", "live", "kalshi_updates"}
FocusIds == {"pA"}

NoPoly == [event_type |-> "", bids |-> <<>>, asks |-> <<>>, changes |-> <<>>]
NoKalshi == [kind |-> "", yes |-> <<>>, no |-> <<>>, price |-> 0, delta |-> 0, side |-> ""]

\* Messages by their content.
PmBook(bids, asks) == [event_type |-> "book", bids |-> bids, asks |-> asks, changes |-> <<>>]
PmChange(side, price, size) ==
    [event_type |-> "delta", bids |-> <<>>, asks |-> <<>>,
     changes |-> <<[side |-> side, price |-> price, size |-> size]>>]
KsSnapshot(yes, no) ==
    [kind |-> "snapshot", yes |-> yes, no |-> no, price |-> 0, delta |-> 0, side |-> ""]
KsChange(side, price, d) ==
    [kind |-> "delta", yes |-> <<>>, no |-> <<>>, price |-> price, delta |-> d, side |-> side]

\* A message without a malformed entry.
NoBad == [list |-> "", at |-> 0, defect |-> ""]

\* The last operation: what it was given (the message pm or ks, or the side and
\* size of a walk; bad tells where a malformed entry sits among the entries of
\* the message), the book before it, and what it did (raised: an exception
\* left the applier).
NoOp ==
    [op |-> "none", id |-> "", side |-> "", price |-> 0, size |-> 0, prev |-> 0,
     before |-> OrderBook_init, avg |-> RatZero, filled |-> 0,
     pm |-> NoPoly, ks |-> NoKalshi, bad |-> NoBad, raised |-> FALSE]

PolyBookMsgs ==
    {[event_type |-> "book", bids |-> b, asks |-> a, changes |-> <<>>] :
        b \in SnapshotLevelLists, a \in SnapshotLevelLists}
PolyDeltaMsgs ==
    {[event_type |-> "delta", bids |-> <<>>, asks |-> <<>>,
      changes |-> <<[side |-> sd, price |-> p, size |-> z]>>] :
        sd \in {"BUY", "SELL"}, p \in Prices, z \in Sizes}
KalshiSnapshotMsgs ==
    {[kind |-> "snapshot", yes |-> y, no |-> n, price |-> 0, delta |-> 0, side |-> ""] :
        y \in SnapshotLevelLists, n \in SnapshotLevelLists}
KalshiDeltaMsgs ==
    {[kind |-> "delta", yes |-> <<>>, no |-> <<>>, price |-> p, delta |-> d, side |-> sd] :
        p \in Prices, d \in Deltas \ {0}, sd \in {"yes", "no"}}

\* The key under which a class stores a level.
LevelKey(im, side, price) == IF im = "v2" /\ side = "bid" THEN 0 - price ELSE price
SideMap(book, side) == IF side = "bid" THEN book.bids ELSE book.asks
StoredSize(im, book, side, price) == MapGet(SideMap(book, side), LevelKey(im, side, price), 0)

NoEntry == [name |-> "", key |-> "", pm |-> NoPoly, ks |-> NoKalshi]
NoPush ==
    [idx |-> 0, applied |-> 0, entry_ts |-> 0, execution_ts |-> 0,
     found |-> <<>>, pushed |-> FALSE]
ZeroTotals ==
    [total_trades |-> 0, total_profit |-> RatZero, total_volume |-> 0, total_fees |-> 0]

\* The replay state of a run that replays nothing.
ReplayIdle ==
    /\ mode = "none"
    /\ delay = 0
    /\ pc = "idle"
    /\ log_idx = 0
    /\ current_ts = 0
    /\ log_entry = NoEntry
    /\ applied = 0
    /\ scheduled_trades = <<>>
    /\ totals = ZeroTotals
    /\ TRADE_ID_COUNTER = 0
    /\ csv_rows = <<>>
    /\ execs = <<>>
    /\ last_push = NoPush
    /\ parsed_lines = <<>>

NoTask ==
    [id |-> 0, game |-> <<>>, platforms |-> <<>>, market_ids |-> <<>>, asks |-> <<>>,
     bids |-> <<>>, trade_size |-> 0, pc |-> "none", results |-> <<>>, orders |-> <<>>,
     success |-> <<>>, outcome |-> ""]

\* run_trader is in its gather (main_trader.py:317), Tor is up and asyncio.run
\* has cancelled nothing.
Running == [phase |-> "running", accepting |-> TRUE, tor |-> "up", cancelled |-> <<>>]

\* The live state of a run that does not trade live.
LiveIdle ==
    /\ run_state = Running
    /\ now = 0
    /\ LAST_GAME_TRADE_ATTEMPT = EmptyMap
    /\ queue = <<>>
    /\ tasks = <<>>
    /\ poly_id = "unset"
    /\ attempts = <<>>
    /\ last_done = NoTask

\* The implementations that walk books: execute_trade_on_book exists in
\* replay.py and replay_v2.py only.
WalkImpls == {"legacy", "v2"}

BookInit ==
    /\ impl \in WalkImpls
    /\ order_books = InitOrderBooks
    /\ last_op = NoOp
    /\ ReplayIdle
    /\ LiveIdle

\* The names the live feeds give the message types.
PolyWire(data) ==
    IF data.event_type = "delta" THEN [data EXCEPT !.event_type = "price_change"] ELSE data
KalshiWire(data) ==
    IF data.kind = "snapshot" THEN [data EXCEPT !.kind = "orderbook_snapshot"]
    ELSE IF data.kind = "delta" THEN [data EXCEPT !.kind = "orderbook_delta"]
    ELSE data

\* The Venue A applier of an implementation.
PolyApplier(im, book, data) ==
    IF im = "v2" THEN robust_update_polymarket_order_book(book, data)
    ELSE IF im = "live" THEN updates_update_polymarket_order_book(book, PolyWire(data))
    ELSE update_polymarket_order_book(book, data)

\* The Venue B applier of an implementation.
KalshiApplier(im, book, data) ==
    IF im = "v2" THEN robust_update_kalshi_order_book(book, data)
    ELSE IF im = "live" THEN updates_update_kalshi_order_book(book, KalshiWire(data))
    ELSE IF im = "kalshi_updates"
    THEN kalshi_updates_update_kalshi_order_book(book, KalshiWire(data))
    ELSE update_kalshi_order_book(book, data)

\* What is wrong with the price of a malformed entry: the key (or, in a
\* Venue B level, the list element) is absent, the value is a string that is
\* not a number, or the value is null.
Defects == {"missing", "non_numeric", "null"}

\* The exception float(entry["price"]) raises on a malformed Venue A entry.
PolyEntryError(defect) ==
    IF defect = "missing" THEN "KeyError"
    ELSE IF defect = "non_numeric" THEN "ValueError"
    ELSE "TypeError"

\* The exceptions the try around one Venue A entry catches.
PolyCaught(im) ==
    IF im = "live" THEN {"ValueError", "KeyError"}
    ELSE IF im = "legacy" THEN {"ValueError", "KeyError", "TypeError"}
    ELSE {}

\* What a Venue A applier does at a malformed entry: "skip" it and go on with
\* the next entry, or "raise" (the exception leaves the applier).
PolyEntryOutcome(im, defect) ==
    IF PolyEntryError(defect) \in PolyCaught(im) THEN "skip" ELSE "raise"

\* What a Venue B applier does at a malformed snapshot level: "skip" it,
\* "stop" (the handler around the whole body ends the update), or "raise".
\* kalshi/recreate.py unpacks the level in the for statement, outside its try.
KalshiLevelOutcome(im, defect) ==
    IF im = "v2" THEN "stop"
    ELSE IF im = "legacy" /\ defect = "missing" THEN "raise"
    ELSE "skip"

\* The entries of a list an applier gets to apply when the malformed entry
\* sits behind the first `at` of them.
Processed(entries, at, outcome) ==
    IF outcome = "skip" THEN entries ELSE SubSeq(entries, 1, at)

\* A Venue A message with a malformed entry in its bids (book) or in its
\* changes (delta).
MalformedPoly(im, book, data, bad) ==
    LET out == PolyEntryOutcome(im, bad.defect) IN
    [book |-> PolyApplier(im, book,
                IF bad.list = "bids"
                THEN [data EXCEPT !.bids = Processed(@, bad.at, out),
                                  !.asks = IF out = "skip" THEN @ ELSE <<>>]
                ELSE [data EXCEPT !.changes = Processed(@, bad.at, out)]),
     raised |-> out = "raise"]

\* A Venue B message with a malformed level in its yes list (snapshot), or a
\* delta with a malformed price: every applier catches what a delta raises
\* before anything is written.
MalformedKalshi(im, book, data, bad) ==
    LET out == KalshiLevelOutcome(im, bad.defect) IN
    IF data.kind = "snapshot"
    THEN [book |-> KalshiApplier(im, book,
                    [data EXCEPT !.yes = Processed(@, bad.at, out),
                                 !.no = IF out = "skip" THEN @ ELSE <<>>]),
          raised |-> out = "raise"]
    ELSE [book |-> book, raised |-> FALSE]

\* The level a Venue B delta writes: update_side and target_price.
KalshiDeltaTarget(im, data) ==
    IF data.side = "yes" THEN [side |-> "bid", price |-> data.price]
    ELSE IF im = "kalshi_updates" THEN [side |-> "ask", price |-> data.price]
    ELSE [side |-> "ask", price |-> NoToYes(data.price)]

\* current_size: the size a Venue B delta adds to.
KalshiDeltaCurrent(im, book, data) ==
    LET t == KalshiDeltaTarget(im, data) IN
    IF im = "live"
    THEN MapGet(IF t.side = "bid" THEN book.asks ELSE book.bids, t.price, 0)
    ELSE StoredSize(im, book, t.side, t.price)

\* No level of the book is larger than the sizes of the model.
WithinSizes(book) ==
    /\ \A k \in DOMAIN book.bids : book.bids[k] <= MaxLevelSize
    /\ \A k \in DOMAIN book.asks : book.asks[k] <= MaxLevelSize

ApplyPolymarket(id, data) ==
    /\ impl # "kalshi_updates"
    /\ order_books' = [order_books EXCEPT ![id] = PolyApplier(impl, @, data)]
    /\ UNCHANGED impl

PolySnapshot(id) ==
    \E data \in PolyBookMsgs :
        /\ ApplyPolymarket(id, data)
        /\ last_op' = [NoOp EXCEPT !.op = "pm_book", !.id = id, !.pm = data,
                          !.before = order_books[id]]

PolyDelta(id) ==
    \E data \in PolyDeltaMsgs :
        LET c == data.changes[1] IN
        /\ ApplyPolymarket(id, data)
        /\ last_op' = [NoOp EXCEPT !.op = "pm_delta", !.id = id, !.pm = data,
                          !.before = order_books[id],
                          !.side = PolySide(c.side), !.price = c.price, !.size = c.size,
                          !.prev = StoredSize(impl, order_books[id], PolySide(c.side), c.price)]

ApplyKalshi(id, data) ==
    /\ order_books' = [order_books EXCEPT ![id] = KalshiApplier(impl, @, data)]
    /\ UNCHANGED impl

KalshiSnapshot(id) ==
    \E data \in KalshiSnapshotMsgs :
        /\ ApplyKalshi(id, data)
        /\ last_op' = [NoOp EXCEPT !.op = "ks_snapshot", !.id = id, !.ks = data,
                          !.before = order_books[id]]

KalshiDelta(id) ==
    \E data \in KalshiDeltaMsgs :
        LET t == KalshiDeltaTarget(impl, data)
            prev == StoredSize(impl, order_books[id], t.side, t.price)
            current_size == KalshiDeltaCurrent(impl, order_books[id], data)
        IN
        /\ prev + data.delta <= MaxLevelSize
        /\ WithinSizes(KalshiApplier(impl, order_books[id], data))
        /\ ApplyKalshi(id, data)
        /\ last_op' = [NoOp EXCEPT !.op = "ks_delta", !.id = id, !.ks = data,
                          !.before = order_books[id], !.side = t.side,
                          !.price = t.price, !.size = current_size + data.delta,
                          !.prev = prev]

\* The messages with one malformed entry: the valid entries and the place of
\* the malformed one.
MalformedPolyMsgs ==
    {[data |-> PmBook(<< <<50, MaxLevelSize>>, <<40, 1>> >>, << <<60, 1>> >>),
      bad |-> [list |-> "bids", at |-> 1, defect |-> f]] : f \in Defects}
    \cup {[data |-> PmChange("BUY", 50, 1),
           bad |-> [list |-> "changes", at |-> k, defect |-> f]] :
                k \in 0..1, f \in Defects}
MalformedKalshiMsgs ==
    {[data |-> KsSnapshot(<< <<50, MaxLevelSize>>, <<40, 1>> >>, << <<40, 1>> >>),
      bad |-> [list |-> "yes", at |-> 1, defect |-> f]] : f \in Defects}
    \cup {[data |-> KsChange("yes", 50, 1),
           bad |-> [list |-> "price", at |-> 0, defect |-> f]] : f \in Defects}

MalformedPolyMsg(id) ==
    \E m \in MalformedPolyMsgs :
        /\ impl # "kalshi_updates"
        /\ order_books' =
                [order_books EXCEPT ![id] = MalformedPoly(impl, @, m.data, m.bad).book]
        /\ last_op' = [NoOp EXCEPT !.op = "pm_malformed", !.id = id, !.pm = m.data,
                          !.bad = m.bad, !.before = order_books[id],
                          !.raised = MalformedPoly(impl, order_books[id], m.data, m.bad).raised]
        /\ UNCHANGED impl

MalformedKalshiMsg(id) ==
    \E m \in MalformedKalshiMsgs :
        /\ order_books' =
                [order_books EXCEPT ![id] = MalformedKalshi(impl, @, m.data, m.bad).book]
        /\ last_op' = [NoOp EXCEPT !.op = "ks_malformed", !.id = id, !.ks = m.data,
                          !.bad = m.bad, !.before = order_books[id],
                          !.raised = MalformedKalshi(impl, order_books[id], m.data, m.bad).raised]
        /\ UNCHANGED impl

Walk(id) ==
    \E side \in BookSides, size \in WalkSizes :
        LET r == IF impl = "v2" THEN V2_execute_trade_on_book(order_books[id], side, size)
                                ELSE OB_execute_trade_on_book(order_books[id], side, size)
        IN
        /\ impl \in WalkImpls
        /\ order_books' = [order_books EXCEPT ![id] = r.book]
        /\ last_op' = [NoOp EXCEPT !.op = "walk", !.id = id, !.side = side, !.size = size,
                          !.before = order_books[id], !.avg = r.avg, !.filled = r.size]
        /\ UNCHANGED impl

\* The caller drops the value an operation returned (execute_trade_on_book's
\* tuple, None for the appliers) before it performs the next operation.
DiscardResult ==
    /\ last_op # NoOp
    /\ last_op' = NoOp
    /\ UNCHANGED <<impl, order_books>>

BookOp ==
    /\ last_op = NoOp
    /\ \E id \in FocusIds :
        \/ PolySnapshot(id)
        \/ PolyDelta(id)
        \/ KalshiSnapshot(id)
        \/ KalshiDelta(id)
        \/ Walk(id)

BookNext == (BookOp \/ DiscardResult) /\ UNCHANGED <<replay_vars, live_vars, sweep_vars, shutdown_vars>>

SpecBook == BookInit /\ [][BookNext]_vars

\* The appliers alone, for every implementation of them.
ApplyInit ==
    /\ impl \in Impls
    /\ order_books = InitOrderBooks
    /\ last_op = NoOp
    /\ ReplayIdle
    /\ LiveIdle

ApplyOp ==
    /\ last_op = NoOp
    /\ \E id \in FocusIds :
        \/ PolySnapshot(id)
        \/ PolyDelta(id)
        \/ KalshiSnapshot(id)
        \/ KalshiDelta(id)
        \/ MalformedPolyMsg(id)
        \/ MalformedKalshiMsg(id)

ApplyNext == (ApplyOp \/ DiscardResult) /\ UNCHANGED <<replay_vars, live_vars, sweep_vars, shutdown_vars>>

SpecApply == ApplyInit /\ [][ApplyNext]_vars

-----------------------------------------------------------------------------
(* C1: every stored bid and ask level of every OrderBook has size > 0; an    *)
(* update whose resulting size is zero or negative removes the level.        *)

LevelsPositive(book) ==
    /\ \A k \in DOMAIN book.bids : book.bids[k] > 0
    /\ \A k \in DOMAIN book.asks : book.asks[k] > 0

\* C1: every stored bid and ask level of every OrderBook has size > 0; an
\* update whose resulting size is zero or negative removes the level.
C1_NoNonPositiveLevel ==
    /\ \A id \in BookIds : LevelsPositive(order_books[id])
    /\ (last_op.op \in {"pm_delta", "ks_delta"} /\ last_op.size <= 0)
          => LevelKey(impl, last_op.side, last_op.price)
                \notin DOMAIN SideMap(order_books[last_op.id], last_op.side)

\* A signed delta took an existing level to zero or below and the level is gone.
C1_Witness ==
    /\ last_op.op = "ks_delta"
    /\ last_op.prev > 0
    /\ last_op.size <= 0
    /\ LevelKey(impl, last_op.side, last_op.price)
          \notin DOMAIN SideMap(order_books[last_op.id], last_op.side)

-----------------------------------------------------------------------------
(* C2: execute_trade_on_book(book, side, s) with s > 0 fills min(s, total    *)
(* liquidity of the side), takes it from the levels best price first (every  *)
(* level before the last touched one is removed, the last touched one keeps  *)
(* its size minus what was taken, no level beyond it changes) and returns    *)
(* the average price sum(taken_i * price_i) / filled (0 when nothing fills). *)

PricesOf(im, book, side) ==
    {IF im = "v2" /\ side = "bid" THEN 0 - k ELSE k : k \in DOMAIN SideMap(book, side)}

BestFirst(im, book, side) ==
    IF side = "ask" THEN SortedAsc(PricesOf(im, book, side))
                    ELSE SortedDesc(PricesOf(im, book, side))

\* Size resting on the first i levels of ps.
RECURSIVE CumSize(_, _, _, _, _)
CumSize(im, book, side, ps, i) ==
    IF i = 0 THEN 0
    ELSE StoredSize(im, book, side, ps[i]) + CumSize(im, book, side, ps, i - 1)

\* What a best-price-first fill of `filled` takes from level i of ps.
Taken(im, book, side, ps, i, filled) ==
    Max2(0, Min2(StoredSize(im, book, side, ps[i]),
                 filled - CumSize(im, book, side, ps, i - 1)))

RECURSIVE CostOf(_, _, _, _, _, _)
CostOf(im, book, side, ps, i, filled) ==
    IF i = 0 THEN 0
    ELSE Taken(im, book, side, ps, i, filled) * ps[i]
         + CostOf(im, book, side, ps, i - 1, filled)

\* C2: execute_trade_on_book(book, side, s) with s > 0 fills min(s, total
\* liquidity of the side), takes it from the levels best price first (every
\* level before the last touched one is removed, the last touched one keeps its
\* size minus what was taken, no level beyond it changes) and returns the
\* average price sum(taken_i * price_i) / filled (0 when nothing fills).
C2_WalkFillsBestFirst ==
    (last_op.op = "walk" /\ last_op.size > 0) =>
        LET b == last_op.before
            a == order_books[last_op.id]
            sd == last_op.side
            ps == BestFirst(impl, b, sd)
            filled == Min2(last_op.size, CumSize(impl, b, sd, ps, Len(ps)))
        IN
        /\ last_op.filled = filled
        /\ PricesOf(impl, a, sd) \subseteq PricesOf(impl, b, sd)
        /\ \A i \in 1..Len(ps) :
              LET left == StoredSize(impl, b, sd, ps[i]) - Taken(impl, b, sd, ps, i, filled) IN
              /\ StoredSize(impl, a, sd, ps[i]) = left
              /\ (left = 0) => ps[i] \notin PricesOf(impl, a, sd)
        /\ IF filled > 0
           THEN last_op.avg.n * filled = last_op.avg.d * CostOf(impl, b, sd, ps, Len(ps), filled)
           ELSE last_op.avg = RatZero

\* The spec's example in the model's units: walking the asks for 3 against
\* [(40, 1), (50, MaxLevelSize), (60, 1)] removes level 40 and takes 2 at 50.
C2_Witness ==
    /\ last_op.op = "walk" /\ last_op.side = "ask" /\ last_op.size = 3
    /\ PricesOf(impl, last_op.before, "ask") = {40, 50, 60}
    /\ StoredSize(impl, last_op.before, "ask", 40) = 1
    /\ StoredSize(impl, last_op.before, "ask", 50) = MaxLevelSize
    /\ last_op.filled = 3
    /\ last_op.avg.n * 3 = last_op.avg.d * (40 + 2 * 50)
    /\ StoredSize(impl, order_books[last_op.id], "ask", 40) = 0
    /\ StoredSize(impl, order_books[last_op.id], "ask", 50) = MaxLevelSize - 2
    /\ StoredSize(impl, order_books[last_op.id], "ask", 60)
          = StoredSize(impl, last_op.before, "ask", 60)

-----------------------------------------------------------------------------
(* replay_v2.py: the fee, the detector and the two-leg execution *)

PROFIT_THRESHOLD == 0

\* (trade_size, n, d), n/d the price in cents in lowest terms, for trade sizes and
\* denominators up to 7 and for the sizes 8 and 100 at the whole-cent prices
\* 1, 25, 40, 50, 60 and 99: the inputs on which the exact value of
\* 0.07 * trade_size * price * (1 - price) * 100 is a whole number of cents and
\* its evaluation in IEEE doubles lands just above it, so math.ceil adds a cent.
FloatExcess ==
    { <<4, 50, 1>>, <<7, 100, 7>>, <<7, 300, 7>>, <<7, 400, 7>>, <<7, 600, 7>>,
      <<8, 50, 1>>, <<100, 40, 1>>, <<100, 50, 1>>, <<100, 60, 1>> }

\* A variant without the test of line 21.
calculate_kalshi_fee_unguarded(trade_size, price) ==
    CeilDiv(7 * trade_size * price.n * (100 * price.d - price.n), 10000 * price.d * price.d)

\* calculate_kalshi_fee(trade_size, price): the fee in cents (the code returns
\* dollars, cents / 100.0); price is a rational number of cents.
calculate_kalshi_fee(trade_size, price) ==
    IF trade_size <= 0 \/ price.n <= 0 \/ price.n >= 100 * price.d THEN 0
    ELSE CeilDiv(7 * trade_size * price.n * (100 * price.d - price.n),
                 10000 * price.d * price.d)
         + (IF <<trade_size, price.n, price.d>> \in FloatExcess THEN 1 ELSE 0)

\* MARKET_MAPPING.items() iterates in insertion order.
MarketOrder == <<"A", "B">>

\* The two cases of find_opportunities for one market, in the order appended.
OppsOfMarket(books, market_name) ==
    LET poly_market_id == MARKET_MAPPING[market_name].polymarket
        kalshi_market_id == MARKET_MAPPING[market_name].kalshi
        pb == books[poly_market_id]
        kb == books[kalshi_market_id]
        p_ask == V2_lowest_ask(pb)
        k_bid == V2_highest_bid(kb)
        k_ask == V2_lowest_ask(kb)
        p_bid == V2_highest_bid(pb)
        size1 == Min2(pb.asks[p_ask], kb.bids[0 - k_bid])
        size2 == Min2(kb.asks[k_ask], pb.bids[0 - p_bid])
        case1 ==
            IF p_ask # None /\ k_bid # None /\ (k_bid - p_ask) > PROFIT_THRESHOLD /\ size1 > 0
            THEN << [type |-> "same_outcome", market_name |-> market_name,
                     buy_id |-> poly_market_id, sell_id |-> kalshi_market_id, size |-> size1,
                     buy_platform |-> "Polymarket", sell_platform |-> "Kalshi",
                     spread |-> k_bid - p_ask] >>
            ELSE <<>>
        case2 ==
            IF k_ask # None /\ p_bid # None /\ (p_bid - k_ask) > PROFIT_THRESHOLD /\ size2 > 0
            THEN << [type |-> "same_outcome", market_name |-> market_name,
                     buy_id |-> kalshi_market_id, sell_id |-> poly_market_id, size |-> size2,
                     buy_platform |-> "Kalshi", sell_platform |-> "Polymarket",
                     spread |-> p_bid - k_ask] >>
            ELSE <<>>
    IN case1 \o case2

\* A variant that leaves the opportunities in the order they were found.
InsertBySpread_unsorted(sorted, x) == Append(sorted, x)

\* list.sort(key=spread, reverse=True) is stable: equal spreads keep their order.
RECURSIVE InsertBySpread(_, _)
InsertBySpread(sorted, x) ==
    IF sorted = <<>> THEN <<x>>
    ELSE IF Head(sorted).spread >= x.spread
         THEN <<Head(sorted)>> \o InsertBySpread(Tail(sorted), x)
         ELSE <<x>> \o sorted

RECURSIVE SortBySpread(_, _)
SortBySpread(sorted, rest) ==
    IF rest = <<>> THEN sorted
    ELSE SortBySpread(InsertBySpread(sorted, Head(rest)), Tail(rest))

RECURSIVE OppsOfMarkets(_, _)
OppsOfMarkets(books, names) ==
    IF names = <<>> THEN <<>>
    ELSE OppsOfMarket(books, Head(names)) \o OppsOfMarkets(books, Tail(names))

find_opportunities(books) == SortBySpread(<<>>, OppsOfMarkets(books, MarketOrder))

\* sum(s for p, s in levels if lo <= p <= hi)
RECURSIVE SumWithin(_, _, _)
SumWithin(levels, lo, hi) ==
    IF levels = <<>> THEN 0
    ELSE (IF lo <= levels[1][1] /\ levels[1][1] <= hi THEN levels[1][2] ELSE 0)
         + SumWithin(Tail(levels), lo, hi)

\* replay.py: PROFIT_THRESHOLD = 0.015, in tenths of a cent.
REPLAY_PROFIT_THRESHOLD == 15

\* replay.py find_and_execute_opportunities, one same-outcome direction: the
\* conditions under which it trades (best ask of the buy book and best bid of
\* the sell book exist, their difference exceeds the threshold, and the
\* liquidity inside the spread is positive on both books).
theoretical_trade_size(buy_asks, best_ask, sell_bids, best_bid) ==
    IF best_ask # None /\ best_bid # None
            /\ 10 * (best_bid - best_ask) > REPLAY_PROFIT_THRESHOLD
    THEN Min2(SumWithin(buy_asks, 0, best_bid), SumWithin(sell_bids, best_ask, 100))
    ELSE 0

\* replay.py run_normal_mode (lines 296-301), one same-outcome direction:
\* theoretical_trade_size when the best bid is above the best ask, else 0.
normal_theoretical_trade_size(buy_asks, best_ask, sell_bids, best_bid) ==
    IF best_ask # None /\ best_bid # None /\ (best_bid - best_ask) > 0
    THEN Min2(SumWithin(buy_asks, 0, best_bid), SumWithin(sell_bids, best_ask, 100))
    ELSE 0

\* Lines 302-303 of run_delay_mode and 126-127 of _execute_and_log_opportunity:
\* the buy leg walks the asks, then the sell leg walks the bids.
WalkLegs(books, opp) ==
    LET Sold(books1, buy, sell) ==
            [books |-> [books1 EXCEPT ![opp.sell_id] = sell.book], buy |-> buy, sell |-> sell]
        Bought(books1, buy) ==
            Sold(books1, buy, V2_execute_trade_on_book(books1[opp.sell_id], "bid", opp.size))
        Buy(buy) == Bought([books EXCEPT ![opp.buy_id] = buy.book], buy)
    IN Buy(V2_execute_trade_on_book(books[opp.buy_id], "ask", opp.size))

\* A variant that counts every execution that filled something.
Settle_unchecked(opp, buy, sell) ==
    LET actual_size == Min2(buy.size, sell.size)
        fees == IF actual_size > 0
                THEN IF opp.buy_platform = "Kalshi"
                     THEN calculate_kalshi_fee(actual_size, buy.avg)
                     ELSE calculate_kalshi_fee(actual_size, sell.avg)
                ELSE 0
        net_profit == RatSub(RatScale(RatSub(sell.avg, buy.avg), actual_size), Rat(fees, 1))
    IN [actual_size |-> actual_size, fees |-> fees, net_profit |-> net_profit,
        profitable |-> actual_size > 0]

\* Lines 304-309 of run_delay_mode and 128-135 of _execute_and_log_opportunity:
\* take the smaller fill, charge the Kalshi fee, test the net profit.
Settle(opp, buy, sell) ==
    LET actual_size == Min2(buy.size, sell.size)
        fees == IF actual_size > 0
                THEN IF opp.buy_platform = "Kalshi"
                     THEN calculate_kalshi_fee(actual_size, buy.avg)
                     ELSE calculate_kalshi_fee(actual_size, sell.avg)
                ELSE 0
        net_profit == RatSub(RatScale(RatSub(sell.avg, buy.avg), actual_size), Rat(fees, 1))
    IN [actual_size |-> actual_size, fees |-> fees, net_profit |-> net_profit,
        profitable |-> actual_size > 0 /\ net_profit.n > 0]

ExecuteOpportunity(books, opp) ==
    LET Outcome(w, s) ==
            [books |-> w.books,
             executed_buy |-> w.buy.size, avg_buy_price |-> w.buy.avg,
             executed_sell |-> w.sell.size, avg_sell_price |-> w.sell.avg,
             actual_size |-> s.actual_size, fees |-> s.fees, net_profit |-> s.net_profit,
             profitable |-> s.profitable]
        Walked(w) == Outcome(w, Settle(opp, w.buy, w.sell))
    IN Walked(WalkLegs(books, opp))

-----------------------------------------------------------------------------
(* heapq on a list of (execution_ts, opportunity) tuples.  Index i of the     *)
(* sequence is position i - 1 of the Python list.                             *)

\* a < b on tuples: the first elements decide unless they are equal; then the
\* dicts are compared, and `<` between two unequal dicts raises TypeError.
TupleLt(a, b) ==
    IF a[1] # b[1] THEN (IF a[1] < b[1] THEN "true" ELSE "false")
    ELSE IF a[2] = b[2] THEN "false"
    ELSE "TypeError"

\* heapq._siftdown(heap, startpos, pos) with newitem = heap[pos].  The C
\* implementation exchanges items, so the list holds every item once also when
\* a comparison raises.
RECURSIVE siftdown(_, _, _, _)
siftdown(heap, startpos, pos, newitem) ==
    IF pos > startpos
    THEN LET parentpos == pos \div 2
             lt == TupleLt(newitem, heap[parentpos])
         IN IF lt = "TypeError" THEN [ok |-> FALSE, heap |-> [heap EXCEPT ![pos] = newitem]]
            ELSE IF lt = "true"
                 THEN siftdown([heap EXCEPT ![pos] = heap[parentpos]], startpos, parentpos, newitem)
                 ELSE [ok |-> TRUE, heap |-> [heap EXCEPT ![pos] = newitem]]
    ELSE [ok |-> TRUE, heap |-> [heap EXCEPT ![pos] = newitem]]

\* The while loop of heapq._siftup, then its call of _siftdown.
RECURSIVE siftup(_, _, _, _)
siftup(heap, startpos, pos, newitem) ==
    LET endpos == Len(heap)
        childpos == 2 * pos
        rightpos == childpos + 1
    IN IF childpos <= endpos
       THEN LET lt == IF rightpos <= endpos THEN TupleLt(heap[childpos], heap[rightpos])
                                             ELSE "true"
                c == IF lt = "false" THEN rightpos ELSE childpos
            IN IF lt = "TypeError" THEN [ok |-> FALSE, heap |-> [heap EXCEPT ![pos] = newitem]]
               ELSE siftup([heap EXCEPT ![pos] = heap[c]], startpos, c, newitem)
       ELSE siftdown(heap, startpos, pos, newitem)

\* A variant that forgets what was pending.
heappush_replacing(heap, item) == [ok |-> TRUE, heap |-> <<item>>]

\* heapq.heappush(heap, item)
heappush(heap, item) == siftdown(Append(heap, item), 1, Len(heap) + 1, item)

\* heappop: [ok, heap, item]; ok is FALSE when a comparison raised TypeError.
heappop(heap) ==
    LET lastelt == heap[Len(heap)]
        rest == SubSeq(heap, 1, Len(heap) - 1)
    IN IF rest = <<>> THEN [ok |-> TRUE, heap |-> rest, item |-> lastelt]
       ELSE LET r == siftup([rest EXCEPT ![1] = lastelt], 1, 1, lastelt)
            IN [ok |-> r.ok, heap |-> r.heap, item |-> heap[1]]

-----------------------------------------------------------------------------
(* replay_v2.py: the replay of a log, run_normal_mode and run_delay_mode *)

\* The simulated delays and the gaps between consecutive log timestamps, in ticks.
Delays == {0, 1, 2}
TsSteps == {0, 1}

PmEntry(name, data) == [name |-> name, key |-> "pm_delta", pm |-> data, ks |-> NoKalshi]
KsEntry(name, data) == [name |-> name, key |-> "ks_delta", pm |-> NoPoly, ks |-> data]
\* The lines a log may hold.
ReplayEntries ==
    { KsEntry("A", KsSnapshot(<< <<60, MaxLevelSize>> >>, << <<60, 1>> >>)),
      KsEntry("A", KsSnapshot(<< <<60, 1>>, <<40, 1>> >>, <<>>)),
      KsEntry("A", KsChange("yes", 60, 0 - 1)),
      PmEntry("A", PmBook(<<>>, << <<40, MaxLevelSize>> >>)),
      PmEntry("A", PmBook(<< <<50, 1>> >>, << <<40, 1>>, <<60, 1>> >>)),
      PmEntry("A", PmChange("SELL", 40, 1)),
      PmEntry("A", PmChange("SELL", 59, 1)),
      KsEntry("B", KsSnapshot(<< <<50, 1>> >>, <<>>)),
      PmEntry("B", PmChange("SELL", 40, 1)),
      PmEntry("Z", PmChange("SELL", 40, 1)) }

process_log_entry(entry, books) ==
    IF entry.name = "" THEN books
    ELSE IF entry.key = "pm_delta"
    THEN IF entry.name \in Markets
         THEN [books EXCEPT ![MARKET_MAPPING[entry.name].polymarket] =
                    robust_update_polymarket_order_book(@, entry.pm)]
         ELSE books
    ELSE IF entry.key = "ks_delta"
    THEN IF entry.name \in Markets
         THEN [books EXCEPT ![MARKET_MAPPING[entry.name].kalshi] =
                    robust_update_kalshi_order_book(@, entry.ks)]
         ELSE books
    ELSE books

\* execution_ts = current_ts + timedelta(milliseconds=delay)
ExecutionTs_now(ts, d) == ts
ExecutionTs(ts, d) == ts + d

\* Variant: an execution waits until the log has passed its timestamp.
DueNow_strict(execution_ts, ts) == execution_ts < ts

\* scheduled_trades[0][0] <= current_ts
DueNow(execution_ts, ts) == execution_ts <= ts

RECURSIVE SumSizes(_, _)
SumSizes(m, keys) ==
    IF keys = {} THEN 0
    ELSE LET k == CHOOSE x \in keys : TRUE IN m[k] + SumSizes(m, keys \ {k})
Liquidity(book, side) == SumSizes(SideMap(book, side), DOMAIN SideMap(book, side))

Credit(tot, r) ==
    IF r.profitable
    THEN [total_trades |-> tot.total_trades + 1,
          total_profit |-> RatAdd(tot.total_profit, r.net_profit),
          total_volume |-> tot.total_volume + r.actual_size,
          total_fees |-> tot.total_fees + r.fees]
    ELSE tot

\* What one two-leg execution was given and what it did: the liquidity of the
\* two hit sides before the walks and after the attempt has returned.
ExecRecord(opp, execution_ts, at, books, r, tot_before, tot_after, rows_before, rows_after) ==
    [opp |-> opp, execution_ts |-> execution_ts, at_ts |-> at.ts,
     idx |-> at.idx, applied |-> at.applied,
     buy_liquidity |-> Liquidity(books[opp.buy_id], "ask"),
     sell_liquidity |-> Liquidity(books[opp.sell_id], "bid"),
     buy_left |-> Liquidity(r.books[opp.buy_id], "ask"),
     sell_left |-> Liquidity(r.books[opp.sell_id], "bid"),
     executed_buy |-> r.executed_buy, avg_buy_price |-> r.avg_buy_price,
     executed_sell |-> r.executed_sell, avg_sell_price |-> r.avg_sell_price,
     actual_size |-> r.actual_size, fees |-> r.fees, net_profit |-> r.net_profit,
     totals_before |-> tot_before, totals_after |-> tot_after,
     rows_before |-> rows_before, rows_after |-> rows_after]

\* The while loop of run_delay_mode (lines 296-313).
Here == [ts |-> current_ts, idx |-> log_idx, applied |-> applied]

RECURSIVE RunDueAt(_, _, _, _, _)
RunDueAt(heap, books, tot, recs, at) ==
    IF heap # <<>> /\ DueNow(heap[1][1], at.ts)
    THEN LET Settled(p, opp, r, tot2) ==
                 RunDueAt(p.heap, r.books, tot2,
                          Append(recs, ExecRecord(opp, p.item[1], at, books, r, tot, tot2, 0, 0)),
                          at)
             Executed(p, opp, r) == Settled(p, opp, r, Credit(tot, r))
             Popped(p) ==
                 IF ~p.ok
                 THEN [ok |-> FALSE, heap |-> p.heap, books |-> books, totals |-> tot,
                       execs |-> recs]
                 ELSE Executed(p, p.item[2], ExecuteOpportunity(books, p.item[2]))
         IN Popped(heappop(heap))
    ELSE [ok |-> TRUE, heap |-> heap, books |-> books, totals |-> tot, execs |-> recs]

RunDue(heap, books, tot, recs) == RunDueAt(heap, books, tot, recs, Here)

\* One CSV row of _execute_and_log_opportunity.
TradeRow(id, opp, r) ==
    [trade_id |-> id, size |-> r.actual_size, net_profit |-> r.net_profit, fees |-> r.fees,
     market_name |-> opp.market_name, buy_platform |-> opp.buy_platform,
     sell_platform |-> opp.sell_platform,
     avg_buy_price |-> r.avg_buy_price, avg_sell_price |-> r.avg_sell_price]

\* for opp in opportunities: _execute_and_log_opportunity(opp, order_books, timestamp)
RECURSIVE RunAll(_, _, _, _, _, _)
RunAll(opps, at, books, counter, rows, recs) ==
    IF opps = <<>>
    THEN [books |-> books, counter |-> counter, rows |-> rows, execs |-> recs]
    ELSE LET Logged(opp, r, counter2, rows2) ==
                 RunAll(Tail(opps), at, r.books, counter2, rows2,
                        Append(recs, ExecRecord(opp, at.ts, at, books, r, ZeroTotals,
                                                ZeroTotals, Len(rows), Len(rows2))))
             Counted(opp, r, counter2) ==
                 Logged(opp, r, counter2,
                        IF r.profitable THEN Append(rows, TradeRow(counter2, opp, r))
                        ELSE rows)
             Executed(opp, r) ==
                 Counted(opp, r, IF r.profitable THEN counter + 1 ELSE counter)
         IN Executed(Head(opps), ExecuteOpportunity(books, Head(opps)))

\* The order of the steps of the body of the delay loop.
NextPhase_apply_first(p) ==
    CASE p = "next" -> "apply" [] p = "apply" -> "due" [] p = "due" -> "find" [] OTHER -> "next"
NextPhase(p) ==
    CASE p = "next" -> "due" [] p = "due" -> "apply" [] p = "apply" -> "find" [] OTHER -> "next"

ReplayInit ==
    /\ impl = "v2"
    /\ order_books = InitOrderBooks
    /\ last_op = NoOp
    /\ mode \in {"normal", "delay"}
    /\ delay \in (IF mode = "delay" THEN Delays ELSE {0})
    /\ pc = "next"
    /\ log_idx = 0
    /\ current_ts = 0
    /\ log_entry = NoEntry
    /\ applied = 0
    /\ scheduled_trades = <<>>
    /\ totals = ZeroTotals
    /\ TRADE_ID_COUNTER = 0
    /\ csv_rows = <<>>
    /\ execs = <<>>
    /\ last_push = NoPush
    /\ parsed_lines = <<>>
    /\ LiveIdle

\* for i, log_entry in enumerate(parsed_lines): current_ts = log_entry['parsed_ts']
NextEntry ==
    /\ mode = "delay" /\ pc = "next" /\ log_idx < MaxLog
    /\ \E e \in ReplayEntries, dt \in TsSteps :
          /\ log_entry' = e
          /\ current_ts' = current_ts + dt
    /\ log_idx' = log_idx + 1
    /\ pc' = NextPhase("next")
    /\ execs' = <<>>
    /\ last_push' = NoPush
    /\ UNCHANGED <<book_vars, mode, delay, applied, scheduled_trades, totals,
                   TRADE_ID_COUNTER, csv_rows>>

\* 1. Execute any scheduled trades that are now due.
ExecuteDue ==
    /\ mode = "delay" /\ pc = "due"
    /\ LET r == RunDue(scheduled_trades, order_books, totals, <<>>) IN
          /\ scheduled_trades' = r.heap
          /\ order_books' = r.books
          /\ totals' = r.totals
          /\ execs' = r.execs
          /\ pc' = IF r.ok THEN NextPhase("due") ELSE "crashed"
    /\ UNCHANGED <<impl, last_op, mode, delay, log_idx, current_ts, log_entry, applied,
                   TRADE_ID_COUNTER, csv_rows, last_push>>

\* 2. Process current log entry to update the books.
ProcessLogEntry ==
    /\ mode = "delay" /\ pc = "apply"
    /\ order_books' = process_log_entry(log_entry, order_books)
    /\ applied' = applied + 1
    /\ pc' = NextPhase("apply")
    /\ UNCHANGED <<impl, last_op, mode, delay, log_idx, current_ts, log_entry,
                   scheduled_trades, totals, TRADE_ID_COUNTER, csv_rows, execs, last_push>>

\* 3. Find and schedule new opportunities.
FindAndSchedule ==
    /\ mode = "delay" /\ pc = "find"
    /\ LET opportunities == find_opportunities(order_books)
           execution_ts == ExecutionTs(current_ts, delay)
           r == IF opportunities # <<>>
                THEN heappush(scheduled_trades, <<execution_ts, opportunities[1]>>)
                ELSE [ok |-> TRUE, heap |-> scheduled_trades]
       IN /\ scheduled_trades' = r.heap
          /\ last_push' = [idx |-> log_idx, applied |-> applied, entry_ts |-> current_ts,
                           execution_ts |-> execution_ts, found |-> opportunities,
                           pushed |-> opportunities # <<>> /\ r.ok]
          /\ pc' = IF r.ok THEN NextPhase("find") ELSE "crashed"
    /\ log_entry' = NoEntry
    /\ UNCHANGED <<book_vars, mode, delay, log_idx, current_ts, applied, totals,
                   TRADE_ID_COUNTER, csv_rows, execs>>

\* The body of the loop of run_normal_mode (lines 225-240).
NormalEntry ==
    /\ mode = "normal" /\ pc = "next" /\ log_idx < MaxLog
    /\ \E e \in ReplayEntries :
          LET books1 == process_log_entry(e, order_books)
              at == [ts |-> current_ts, idx |-> log_idx + 1, applied |-> applied + 1]
              r == RunAll(find_opportunities(books1), at, books1, TRADE_ID_COUNTER, csv_rows, <<>>)
          IN /\ order_books' = r.books
             /\ TRADE_ID_COUNTER' = r.counter
             /\ csv_rows' = r.rows
             /\ execs' = r.execs
    /\ log_idx' = log_idx + 1
    /\ applied' = applied + 1
    /\ UNCHANGED <<impl, last_op, mode, delay, pc, current_ts, log_entry, scheduled_trades,
                   totals, last_push>>

SummaryRow ==
    [delay |-> delay, total_trades |-> totals.total_trades,
     total_profit |-> totals.total_profit, total_volume |-> totals.total_volume,
     total_fees |-> totals.total_fees]

\* A variant of the end of the run that first executes what is still scheduled.
EndOfLog_flush ==
    /\ pc = "next"
    /\ pc' = "done"
    /\ LET r == IF scheduled_trades # <<>>
                THEN ExecuteOpportunity(order_books, scheduled_trades[1][2])
                ELSE [books |-> order_books, profitable |-> FALSE]
           tot == IF r.profitable THEN Credit(totals, r) ELSE totals
       IN /\ totals' = tot
          /\ order_books' = r.books
          /\ scheduled_trades' = IF scheduled_trades # <<>> THEN Tail(scheduled_trades)
                                                           ELSE scheduled_trades
          /\ csv_rows' = IF mode = "delay"
                         THEN Append(csv_rows, [SummaryRow EXCEPT
                                  !.total_trades = tot.total_trades,
                                  !.total_profit = tot.total_profit,
                                  !.total_volume = tot.total_volume,
                                  !.total_fees = tot.total_fees])
                         ELSE csv_rows
    /\ UNCHANGED <<impl, last_op, mode, delay, log_idx, current_ts, log_entry, applied,
                   TRADE_ID_COUNTER, execs, last_push>>

\* The loop over the log ends: the summary row of the delay is written.
EndOfLog ==
    /\ pc = "next"
    /\ pc' = "done"
    /\ csv_rows' = IF mode = "delay" THEN Append(csv_rows, SummaryRow) ELSE csv_rows
    /\ UNCHANGED <<book_vars, mode, delay, log_idx, current_ts, log_entry, applied,
                   scheduled_trades, totals, TRADE_ID_COUNTER, execs, last_push>>

ReplayStep ==
    \/ NextEntry
    \/ ExecuteDue
    \/ ProcessLogEntry
    \/ FindAndSchedule
    \/ NormalEntry
    \/ EndOfLog

ReplayNext == ReplayStep /\ UNCHANGED <<live_vars, sweep_vars, shutdown_vars>>

SpecReplay == ReplayInit /\ [][ReplayNext]_vars

-----------------------------------------------------------------------------
(* The live trader: polymarket/updates.py, kalshi/updates.py, main_trader.py *)
(* and trader.py.  Money is in cents, time in seconds.                       *)

MIN_NET_PROFIT_PER_SHARE == 1
MAX_TRADE_SIZE == 5
TRADE_COOLDOWN_SECONDS == 10
POLYMARKET_FEE_PERCENT == 0

\* time.time() when the trader starts: far more than a cooldown after 0.
ClockStart == 10 * TRADE_COOLDOWN_SECONDS
\* How far the clock moves between two steps.
TickSteps == {TRADE_COOLDOWN_SECONDS - 1, TRADE_COOLDOWN_SECONDS}

COMPLEMENTARY_MARKET_PAIRS == [m \in {"A"} |-> "B"]
REVERSE_COMPLEMENTARY_PAIRS == [m \in {"B"} |-> "A"]
REVERSE_MARKET_LOOKUP == [id \in BookIds |-> IF id \in {"pA", "kA"} THEN "A" ELSE "B"]

LiveMsg(source, market_id, pm, ks) ==
    [source |-> source, market_id |-> market_id, pm |-> pm, ks |-> ks]
PmLive(market_id, data) == LiveMsg("polymarket", market_id, data, NoKalshi)
KsLive(market_id, data) == LiveMsg("kalshi", market_id, NoPoly, data)

\* What the two listeners may put on the queue; the last one is for an asset
\* the trader holds no book for.
LiveMsgs ==
    { PmLive("pA", PmBook(<< <<40, MaxLevelSize>> >>, << <<50, MaxLevelSize>> >>)),
      KsLive("kB", [KsSnapshot(<< <<30, 1>> >>, << <<60, MaxLevelSize>> >>)
                        EXCEPT !.kind = "orderbook_snapshot"]),
      KsLive("kB", [KsChange("no", 60, 0 - 1) EXCEPT !.kind = "orderbook_delta"]),
      PmLive("zz", PmBook(<<>>, << <<50, 1>> >>)) }

\* Variant: a message for an unregistered market gets a book of its own.
ApplyLive_registering(books, msg) ==
    [id \in (DOMAIN books) \cup {msg.market_id} |->
        LET book == IF id \in DOMAIN books THEN books[id] ELSE OrderBook_init IN
        IF id # msg.market_id THEN book
        ELSE IF msg.source = "polymarket"
        THEN updates_update_polymarket_order_book(book, msg.pm)
        ELSE updates_update_kalshi_order_book(book, msg.ks)]

\* The book update of process_websocket_message (lines 193-201).
ApplyLive(books, msg) ==
    IF msg.market_id \notin BookIds THEN books
    ELSE IF msg.source = "polymarket"
    THEN [books EXCEPT ![msg.market_id] = updates_update_polymarket_order_book(@, msg.pm)]
    ELSE IF msg.source = "kalshi"
    THEN [books EXCEPT ![msg.market_id] = updates_update_kalshi_order_book(@, msg.ks)]
    ELSE books

\* fee = buy_price * trade_size * POLYMARKET_FEE_PERCENT (main_trader.py:127, 129)
polymarket_fee(trade_size, price) == price * trade_size * POLYMARKET_FEE_PERCENT

NoPair ==
    [found |-> FALSE, trade_size |-> 0, platforms |-> <<>>, market_ids |-> <<>>,
     asks |-> <<>>, bids |-> <<>>]

\* net_profit / trade_size >= MIN_NET_PROFIT_PER_SHARE is evaluated on floats.
\* Where the exact quotient is above or below 0.01 the float agrees; where it
\* is exactly 0.01 the float is 0.010000000000000009 for most inputs and
\* 0.009999999999999972 for some.  Of the (trade_size, buy_price_1,
\* buy_price_2) with prices in {40, 47, 50, 57} these are the ones that fall
\* short (either platform order).
FloatShortOfMargin == {<<3, 40, 57>>, <<3, 47, 50>>, <<3, 50, 47>>, <<3, 57, 40>>}

\* Line 135: net_profit / trade_size >= MIN_NET_PROFIT_PER_SHARE.
MarginReached(trade_size, buy_price_1, buy_price_2, net_profit) ==
    /\ net_profit >= MIN_NET_PROFIT_PER_SHARE * trade_size
    /\ <<trade_size, buy_price_1, buy_price_2>> \notin FloatShortOfMargin

\* check_and_execute_arbitrage_pair up to the decision (lines 92-135).
CheckPair(books, id1, platform1, id2, platform2) ==
    LET book1 == books[id1]
        book2 == books[id2]
        buy_price_1 == OB_lowest_ask(book1)
        buy_price_2 == OB_lowest_ask(book2)
        liquidity1 == OB_get_liquidity_at_price(book1, buy_price_1, "ask")
        liquidity2 == OB_get_liquidity_at_price(book2, buy_price_2, "ask")
        available_liquidity == Min2(liquidity1, liquidity2)
        trade_size == Min2(MAX_TRADE_SIZE, available_liquidity)
        min_liquidity == IF platform1 = "Polymarket" THEN CeilDiv(100, buy_price_1)
                                                     ELSE CeilDiv(100, buy_price_2)
        fee1 == IF platform1 = "Polymarket"
                THEN polymarket_fee(trade_size, buy_price_1)
                ELSE calculate_kalshi_fee(trade_size, Rat(buy_price_1, 1))
        fee2 == IF platform2 = "Polymarket"
                THEN polymarket_fee(trade_size, buy_price_2)
                ELSE calculate_kalshi_fee(trade_size, Rat(buy_price_2, 1))
        total_cost == buy_price_1 * trade_size + buy_price_2 * trade_size + fee1 + fee2
        net_profit == 100 * trade_size - total_cost
    IN IF buy_price_1 = None \/ buy_price_2 = None THEN NoPair
       ELSE IF available_liquidity <= 0 \/ trade_size < 1 \/ trade_size < min_liquidity
       THEN NoPair
       ELSE IF total_cost < 100 * trade_size
               /\ MarginReached(trade_size, buy_price_1, buy_price_2, net_profit)
       THEN [found |-> TRUE, trade_size |-> trade_size,
             platforms |-> <<platform1, platform2>>, market_ids |-> <<id1, id2>>,
             asks |-> <<buy_price_1, buy_price_2>>,
             bids |-> <<OB_highest_bid(book1), OB_highest_bid(book2)>>]
       ELSE NoPair

MarketRank == [m \in Markets |-> IF m = "A" THEN 1 ELSE 2]

\* A variant that keys the cooldown by the pair as it comes.
GameKey_unsorted(market_a_name, market_b_name) == <<market_a_name, market_b_name>>

\* game_key = tuple(sorted((market_a_name, market_b_name)))
GameKey(market_a_name, market_b_name) ==
    IF MarketRank[market_a_name] <= MarketRank[market_b_name]
    THEN <<market_a_name, market_b_name>>
    ELSE <<market_b_name, market_a_name>>

Complement(name) ==
    IF name \in DOMAIN COMPLEMENTARY_MARKET_PAIRS THEN COMPLEMENTARY_MARKET_PAIRS[name]
    ELSE IF name \in DOMAIN REVERSE_COMPLEMENTARY_PAIRS THEN REVERSE_COMPLEMENTARY_PAIRS[name]
    ELSE ""

\* check_game_arbitrage: the pair to attempt for an update of market_a_name at
\* time t, under the cooldown map last.
check_game_arbitrage(books, last, t, market_a_name) ==
    LET market_b_name == Complement(market_a_name)
        game_key == GameKey(market_a_name, market_b_name)
        scenario1 == CheckPair(books, MARKET_MAPPING[market_a_name].polymarket, "Polymarket",
                               MARKET_MAPPING[market_b_name].kalshi, "Kalshi")
        scenario2 == CheckPair(books, MARKET_MAPPING[market_a_name].kalshi, "Kalshi",
                               MARKET_MAPPING[market_b_name].polymarket, "Polymarket")
    IN IF market_b_name = "" THEN [pair |-> NoPair, game_key |-> <<>>]
       ELSE IF t - MapGet(last, game_key, 0) < TRADE_COOLDOWN_SECONDS
       THEN [pair |-> NoPair, game_key |-> game_key]
       ELSE IF scenario1.found THEN [pair |-> scenario1, game_key |-> game_key]
       ELSE [pair |-> scenario2, game_key |-> game_key]

\* What a leg's venue call may return: a success response, an order that the
\* venue cancelled (Kalshi fill-or-kill not filled), or None.
LegOutcomes(platform) ==
    IF platform = "Polymarket" THEN {"ok", "none"} ELSE {"ok", "canceled", "none"}

\* The call a buy leg makes: platform, market, action, the price argument (the
\* ask captured at detection) and the size.
BuyOrder(task, i) ==
    [platform |-> task.platforms[i], market_id |-> task.market_ids[i], action |-> "buy",
     price |-> task.asks[i], size |-> task.trade_size]

\* The call of a reversal block for leg i (lines 212-216 and 221-224).
SellOrder(task, i) ==
    [platform |-> task.platforms[i], market_id |-> task.market_ids[i], action |-> "sell",
     price |-> task.bids[i], size |-> task.trade_size]

\* is_trade_successful(platform, result)
is_trade_successful(platform, result) ==
    IF result = "none" THEN FALSE
    ELSE IF platform = "Polymarket" THEN result = "ok"
    ELSE IF platform = "Kalshi" THEN result \notin {"canceled", "failed"}
    ELSE FALSE

\* The condition guarding the two reversal blocks (lines 211 and 220): if False.
ReversalGuard == FALSE

\* A variant that sells the first leg whatever the two legs did.
Reversal_always(task, success1, success2) ==
    [outcome |-> "first_only", orders |-> <<SellOrder(task, 1)>>]

\* Lines 207-230: the outcome and the orders the reversal logic posts.
Reversal(task, success1, success2) ==
    IF success1 /\ ~success2
    THEN [outcome |-> "first_only",
          orders |-> IF ReversalGuard THEN <<SellOrder(task, 1)>> ELSE <<>>]
    ELSE IF ~success1 /\ success2
    THEN [outcome |-> "second_only",
          orders |-> IF ReversalGuard THEN <<SellOrder(task, 2)>> ELSE <<>>]
    ELSE IF success1 /\ success2
    THEN [outcome |-> "both", orders |-> <<>>]
    ELSE [outcome |-> "none", orders |-> <<>>]

\* A variant that takes the newest message first.
queue_get_newest(q) == [item |-> q[Len(q)], rest |-> SubSeq(q, 1, Len(q) - 1)]

\* source, message = await queue.get(): asyncio.Queue is first in, first out.
queue_get(q) == [item |-> Head(q), rest |-> Tail(q)]

\* A variant that records no attempt.
CooldownWrite_skipped(last, game_key, t) == last

\* LAST_GAME_TRADE_ATTEMPT[game_key] = time.time()
CooldownWrite(last, game_key, t) == MapSet(last, game_key, t)

\* A leg has posted its order and the venue has not answered yet.
Outstanding(task) == Len(task.orders) > Len(task.results)

\* client.post_order (trader.py:46) and client.post (trader.py:109, requests.post
\* in kalshi/clients.py:157) are synchronous calls made inside a coroutine: the
\* thread of the event loop stays in the call until the venue answers, and no
\* other coroutine of the loop runs meanwhile.
LoopHeld == \E t \in DOMAIN tasks : Outstanding(tasks[t])

LiveInit ==
    /\ impl = "legacy"
    /\ order_books = InitOrderBooks
    /\ last_op = NoOp
    /\ ReplayIdle
    /\ now = ClockStart
    /\ LAST_GAME_TRADE_ATTEMPT = EmptyMap
    /\ queue = <<>>
    /\ tasks = <<>>
    /\ poly_id = "unset"
    /\ attempts = <<>>
    /\ last_done = NoTask
    /\ run_state = Running

\* A listener puts a message on the queue.
ListenerPut ==
    /\ ~LoopHeld
    /\ Len(queue) < MaxQueue
    /\ \E msg \in LiveMsgs : queue' = Append(queue, msg)
    /\ UNCHANGED <<order_books, now, LAST_GAME_TRADE_ATTEMPT, tasks, poly_id, attempts, last_done>>

\* time.time() moves on.
Tick ==
    /\ \E d \in TickSteps :
          /\ now + d <= ClockStart + MaxElapsed
          /\ now' = now + d
    /\ UNCHANGED <<order_books, LAST_GAME_TRADE_ATTEMPT, queue, tasks, poly_id, attempts, last_done>>

\* One turn of process_messages_from_queue: process_websocket_message on the
\* head of the queue, with check_game_arbitrage and, when a pair is accepted,
\* the cooldown write and asyncio.create_task.
Consume ==
    /\ ~LoopHeld
    /\ queue # <<>>
    /\ LET msg == queue_get(queue).item
           books1 == ApplyLive(order_books, msg)
           known == msg.market_id \in DOMAIN REVERSE_MARKET_LOOKUP
           canonical_name == IF known THEN REVERSE_MARKET_LOOKUP[msg.market_id] ELSE ""
           r == IF known
                THEN check_game_arbitrage(books1, LAST_GAME_TRADE_ATTEMPT, now, canonical_name)
                ELSE [pair |-> NoPair, game_key |-> <<>>]
       IN /\ order_books' = books1
          /\ queue' = queue_get(queue).rest
          /\ IF r.pair.found
             THEN /\ LAST_GAME_TRADE_ATTEMPT' = CooldownWrite(LAST_GAME_TRADE_ATTEMPT, r.game_key, now)
                  /\ tasks' = Append(tasks,
                        [id |-> Len(attempts) + 1, game |-> r.game_key,
                         platforms |-> r.pair.platforms, market_ids |-> r.pair.market_ids,
                         asks |-> r.pair.asks, bids |-> r.pair.bids,
                         trade_size |-> r.pair.trade_size, pc |-> "created",
                         results |-> <<>>, orders |-> <<>>, success |-> <<>>, outcome |-> ""])
                  /\ attempts' = Append(attempts,
                        [game |-> {canonical_name, Complement(canonical_name)},
                         trigger |-> canonical_name, at |-> now])
             ELSE UNCHANGED <<LAST_GAME_TRADE_ATTEMPT, tasks, attempts>>
    /\ UNCHANGED <<now, poly_id, last_done>>

\* execute_complimentary_buy_trade runs to `await asyncio.gather(...)` (lines
\* 160-183): the two leg coroutines are created and handed to the event loop,
\* leg 1 first.
TaskStart(t) ==
    /\ ~LoopHeld
    /\ tasks[t].pc = "created"
    /\ tasks' = [tasks EXCEPT ![t].pc = "gathering"]
    /\ UNCHANGED <<order_books, now, LAST_GAME_TRADE_ATTEMPT, queue, poly_id, attempts, last_done>>

\* The event loop runs the next leg of the gather.  execute_polymarket_trade
\* and execute_kalshi_trade contain no await: the leg posts its order through
\* the blocking client, and the other leg, queued behind it, starts only after
\* it has returned.
LegPost(t) ==
    /\ ~LoopHeld
    /\ tasks[t].pc = "gathering"
    /\ Len(tasks[t].results) < 2
    /\ tasks' = [tasks EXCEPT ![t].orders = Append(@, BuyOrder(tasks[t], Len(tasks[t].results) + 1))]
    /\ UNCHANGED <<order_books, now, LAST_GAME_TRADE_ATTEMPT, queue, poly_id, attempts, last_done>>

\* The venue answers, or the client raises and the leg returns None; the leg
\* coroutine ends in the same turn of the loop.
LegReturn(t) ==
    /\ Outstanding(tasks[t])
    /\ LET i == Len(tasks[t].results) + 1 IN
       \E result \in LegOutcomes(tasks[t].platforms[i]) :
          tasks' = [tasks EXCEPT ![t].results = Append(@, result)]
    /\ UNCHANGED <<order_books, now, LAST_GAME_TRADE_ATTEMPT, queue, poly_id, attempts, last_done>>

RemoveAt(seq, t) == SubSeq(seq, 1, t - 1) \o SubSeq(seq, t + 1, Len(seq))

\* The gather has both results: lines 184-230.  is_trade_successful binds the
\* global poly_id when the Polymarket result is not None; line 204 reads it, and
\* raises NameError if no attempt has bound it yet.
Classify(t) ==
    /\ tasks[t].pc = "gathering"
    /\ Len(tasks[t].results) = 2
    /\ LET task == tasks[t]
           success1 == is_trade_successful(task.platforms[1], task.results[1])
           success2 == is_trade_successful(task.platforms[2], task.results[2])
           bound == \E i \in 1..2 : task.platforms[i] = "Polymarket" /\ task.results[i] # "none"
           poly_id1 == IF bound THEN "set" ELSE poly_id
           rev == Reversal(task, success1, success2)
       IN /\ poly_id' = poly_id1
          /\ last_done' =
                IF poly_id1 = "unset"
                THEN [task EXCEPT !.pc = "raised", !.success = <<success1, success2>>,
                                  !.outcome = "NameError"]
                ELSE [task EXCEPT !.pc = "finished", !.success = <<success1, success2>>,
                                  !.outcome = rev.outcome, !.orders = @ \o rev.orders]
          /\ tasks' = RemoveAt(tasks, t)
    /\ UNCHANGED <<order_books, now, LAST_GAME_TRADE_ATTEMPT, queue, attempts>>

LiveStep ==
    \/ ListenerPut
    \/ Tick
    \/ Consume
    \/ \E t \in DOMAIN tasks : TaskStart(t)
    \/ \E t \in DOMAIN tasks : LegPost(t)
    \/ \E t \in DOMAIN tasks : LegReturn(t)
    \/ \E t \in DOMAIN tasks : Classify(t)

LiveNext == LiveStep /\ UNCHANGED <<impl, last_op, replay_vars, sweep_vars, shutdown_vars>>

SpecLive == LiveInit /\ [][LiveNext]_vars

-----------------------------------------------------------------------------
(* Claims about the replay *)

Range(seq) == {seq[i] : i \in DOMAIN seq}

KalshiLegPrice(rec) ==
    IF rec.opp.buy_platform = "Kalshi" THEN rec.avg_buy_price
    ELSE IF rec.opp.sell_platform = "Kalshi" THEN rec.avg_sell_price
    ELSE RatZero

\* (avg_sell_price - avg_buy_price) * actual_size - fees, from a record's prices.
NetOf(rec) ==
    RatSub(RatScale(RatSub(rec.avg_sell_price, rec.avg_buy_price), rec.actual_size),
           Rat(rec.fees, 1))

Credited(rec) == rec.totals_after # rec.totals_before \/ rec.rows_after # rec.rows_before

\* C3: for every two-leg execution, immediate or delayed, the trade size is the
\* smaller of the two legs' filled sizes, the fee is the Kalshi fee of that size
\* at the Kalshi leg's average fill price, and the execution adds a CSV row or
\* is added to the run totals only if that size is positive and the net profit
\* at the average fill prices, less that fee, is strictly positive; what is
\* recorded then is that size, that fee and that net profit.
C3_RecordedOnlyIfProfitable ==
    \A i \in DOMAIN execs :
        LET rec == execs[i] IN
        /\ rec.actual_size = Min2(rec.executed_buy, rec.executed_sell)
        /\ rec.actual_size > 0 =>
               rec.fees = calculate_kalshi_fee(rec.actual_size, KalshiLegPrice(rec))
        /\ Credited(rec) => rec.actual_size > 0 /\ NetOf(rec).n > 0
        /\ (Credited(rec) /\ mode = "delay") =>
               rec.totals_after =
                   [total_trades |-> rec.totals_before.total_trades + 1,
                    total_profit |-> RatAdd(rec.totals_before.total_profit, NetOf(rec)),
                    total_volume |-> rec.totals_before.total_volume + rec.actual_size,
                    total_fees |-> rec.totals_before.total_fees + rec.fees]
        /\ (Credited(rec) /\ mode = "normal") =>
               /\ rec.rows_after = rec.rows_before + 1
               /\ csv_rows[rec.rows_after].size = rec.actual_size
               /\ csv_rows[rec.rows_after].fees = rec.fees
               /\ csv_rows[rec.rows_after].net_profit = NetOf(rec)

\* A credited execution whose two legs filled different sizes and paid a fee.
C3_Witness ==
    \E i \in DOMAIN execs :
        /\ Credited(execs[i])
        /\ execs[i].executed_buy # execs[i].executed_sell
        /\ execs[i].fees > 0

ScheduledAndExecutedOnTime ==
    /\ last_push.pushed =>
          /\ last_push.execution_ts = last_push.entry_ts + delay
          /\ <<last_push.entry_ts + delay, last_push.found[1]>> \in Range(scheduled_trades)
          /\ \A k \in DOMAIN last_push.found :
                last_push.found[1].spread >= last_push.found[k].spread
    /\ \A i \in DOMAIN execs :
          /\ execs[i].at_ts >= execs[i].execution_ts
          /\ execs[i].executed_buy = Min2(execs[i].opp.size, execs[i].buy_liquidity)
          /\ execs[i].executed_sell = Min2(execs[i].opp.size, execs[i].sell_liquidity)

C6_SchedulerNeverFails == pc # "crashed"

\* C7: when the end of the log is reached the run of the delay ends; what is
\* still scheduled is not executed and adds nothing to the totals, and the
\* summary row reports the totals as they stood.
C7_PendingDropped ==
    [][(mode = "delay" /\ pc' = "done") =>
          /\ totals' = totals
          /\ order_books' = order_books
          /\ scheduled_trades' = scheduled_trades
          /\ execs' = execs
          /\ csv_rows' # <<>>
          /\ csv_rows'[Len(csv_rows')].total_trades = totals.total_trades
          /\ csv_rows'[Len(csv_rows')].total_profit = totals.total_profit
          /\ csv_rows'[Len(csv_rows')].total_volume = totals.total_volume
          /\ csv_rows'[Len(csv_rows')].total_fees = totals.total_fees]_vars

\* The run has ended with a scheduled execution pending that would have been
\* profitable on the final books.
C7_Witness ==
    /\ mode = "delay" /\ pc = "done"
    /\ scheduled_trades # <<>>
    /\ ExecuteOpportunity(order_books, scheduled_trades[1][2]).profitable

-----------------------------------------------------------------------------
(* Claims about the live trader *)

\* C8: if exactly one leg of a live two-leg attempt succeeds and the other
\* fails, the coordinator submits a compensating order for the succeeded leg: a
\* sell on the same market, for the same size, at that book's bid captured at
\* detection, whichever leg it is.
C8_ReversalSubmitted ==
    (last_done.pc # "none" /\ last_done.success[1] # last_done.success[2]) =>
        LET i == IF last_done.success[1] THEN 1 ELSE 2 IN
        \E k \in DOMAIN last_done.orders :
            /\ last_done.orders[k].action = "sell"
            /\ last_done.orders[k].market_id = last_done.market_ids[i]
            /\ last_done.orders[k].size = last_done.trade_size
            /\ last_done.orders[k].price = last_done.bids[i]

\* C9: in a live attempt both legs' order submissions are started before
\* either one completes, and the outcome is evaluated only after both legs
\* have returned.
C9_LegsStartedBeforeEitherCompletes ==
    /\ \A t \in DOMAIN tasks :
          Len(tasks[t].results) > 0 => Len(tasks[t].orders) = 2
    /\ last_done.pc # "none" => Len(last_done.results) = 2

\* C10: after a trade attempt for a game, no further attempt is started for
\* that game, whichever of its two markets the update is for, until at least
\* TRADE_COOLDOWN_SECONDS have elapsed since that attempt, whatever became of
\* the attempt.
C10_CooldownBetweenAttempts ==
    \A i, j \in DOMAIN attempts :
        (i < j /\ attempts[i].game = attempts[j].game) =>
            attempts[j].at - attempts[i].at >= TRADE_COOLDOWN_SECONDS

\* Two attempts for the game, triggered by its two markets, exactly one
\* cooldown apart, the first having ended with one leg filled and one failed.
C10_Witness ==
    /\ Len(attempts) = 2
    /\ attempts[1].trigger # attempts[2].trigger
    /\ attempts[2].at - attempts[1].at = TRADE_COOLDOWN_SECONDS
    /\ last_done.id = 1
    /\ last_done.outcome \in {"first_only", "second_only"}

\* C11: the cooldown timestamp of a game is written when the opportunity is
\* accepted, before the execution task has submitted any order; no outcome of
\* the execution (both legs filled, one, none, or an exception) clears it or
\* moves it back, and no entry is ever removed from the cooldown map.
C11_CooldownWrittenAtAcceptance ==
    [][/\ \A k \in DOMAIN LAST_GAME_TRADE_ATTEMPT :
              /\ k \in DOMAIN LAST_GAME_TRADE_ATTEMPT'
              /\ LAST_GAME_TRADE_ATTEMPT'[k] >= LAST_GAME_TRADE_ATTEMPT[k]
       /\ Len(attempts') > Len(attempts) =>
              LET task == tasks'[Len(tasks')] IN
              /\ task.id = Len(attempts')
              /\ task.pc = "created" /\ task.orders = <<>>
              /\ task.game \in DOMAIN LAST_GAME_TRADE_ATTEMPT'
              /\ LAST_GAME_TRADE_ATTEMPT'[task.game] = now
       /\ \A t \in DOMAIN tasks' :
              /\ tasks'[t].game \in DOMAIN LAST_GAME_TRADE_ATTEMPT'
              /\ LAST_GAME_TRADE_ATTEMPT'[tasks'[t].game] >= attempts'[tasks'[t].id].at
       /\ last_done' # last_done =>
              /\ LAST_GAME_TRADE_ATTEMPT' = LAST_GAME_TRADE_ATTEMPT
              /\ last_done'.game \in DOMAIN LAST_GAME_TRADE_ATTEMPT'
              /\ LAST_GAME_TRADE_ATTEMPT'[last_done'.game] >= attempts'[last_done'.id].at
      ]_vars

\* An attempt has ended with an exception after submitting both buys, and the
\* game's cooldown timestamp is still the time the attempt was accepted.
C11_Witness ==
    /\ last_done.pc = "raised"
    /\ Len(last_done.orders) = 2
    /\ LAST_GAME_TRADE_ATTEMPT[last_done.game] = attempts[last_done.id].at
    /\ now > attempts[last_done.id].at

-----------------------------------------------------------------------------
(* C13: a Venue B delta changes exactly the level a snapshot quote with the  *)
(* same side and price would set, and that level's new size is the size      *)
(* stored there before plus the delta (no level when that is <= 0).          *)

\* The levels of a book as (side, price, size), whatever the class.
Levels(im, book) ==
    UNION {{<<sd, p, StoredSize(im, book, sd, p)>> : p \in PricesOf(im, book, sd)} :
            sd \in BookSides}

\* The levels a snapshot holding the one quote (side, price_cents) sets.
SnapshotLevel(im, side, price_cents) ==
    {<<l[1], l[2]>> :
        l \in Levels(im, KalshiApplier(im, OrderBook_init,
                    KsSnapshot(IF side = "yes" THEN << <<price_cents, 1>> >> ELSE <<>>,
                               IF side = "no" THEN << <<price_cents, 1>> >> ELSE <<>>)))}

\* book with the level (sd, p) holding size z, no level when z <= 0.
WithLevel(im, book, sd, p, z) ==
    {l \in Levels(im, book) : <<l[1], l[2]>> # <<sd, p>>} \cup
        (IF z > 0 THEN {<<sd, p, z>>} ELSE {})

\* C13: a Venue B delta changes exactly the level a snapshot quote with the
\* same side and price would set, and that level's new size is the size stored
\* there before plus the delta (no level when that is <= 0).
C13_KalshiDeltaAddsToSnapshotLevel ==
    last_op.op = "ks_delta" =>
        LET T == SnapshotLevel(impl, last_op.ks.side, last_op.ks.price) IN
        /\ Cardinality(T) = 1
        /\ \A t \in T :
              Levels(impl, order_books[last_op.id]) =
                  WithLevel(impl, last_op.before, t[1], t[2],
                            StoredSize(impl, last_op.before, t[1], t[2]) + last_op.ks.delta)

-----------------------------------------------------------------------------
(* C14: a Venue B `yes` quote at c cents is a bid at c/100 and a `no` quote  *)
(* at c cents is an ask at 1 - c/100, in snapshots and in deltas alike.      *)

\* The size the last quote at price_cents of a snapshot list carries, 0 when
\* the list has no quote at that price.
ListedSize(levels, price_cents) ==
    LET I == {i \in 1..Len(levels) : levels[i][1] = price_cents} IN
    IF I = {} THEN 0 ELSE levels[CHOOSE i \in I : \A j \in I : j <= i][2]

\* The (side, price) of the levels on which two books differ.
ChangedLevels(im, before, after) ==
    {<<l[1], l[2]>> : l \in (Levels(im, before) \ Levels(im, after)) \cup
                            (Levels(im, after) \ Levels(im, before))}

\* The level of a quote as the specification maps it.
QuoteLevel(side, price_cents) ==
    IF side = "yes" THEN <<"bid", price_cents>> ELSE <<"ask", 100 - price_cents>>

\* C14: a Venue B `yes` quote at c cents is a bid at c/100 and a `no` quote at
\* c cents is an ask at 1 - c/100, in snapshots and in deltas alike.
C14_KalshiQuoteMapping ==
    /\ last_op.op = "ks_snapshot" =>
            {<<l[1], l[2]>> : l \in Levels(impl, order_books[last_op.id])} =
                {QuoteLevel("yes", c) : c \in {x \in Prices : ListedSize(last_op.ks.yes, x) > 0}}
                \cup {QuoteLevel("no", c) : c \in {x \in Prices : ListedSize(last_op.ks.no, x) > 0}}
    /\ last_op.op = "ks_delta" =>
            ChangedLevels(impl, last_op.before, order_books[last_op.id]) \subseteq
                {QuoteLevel(last_op.ks.side, last_op.ks.price)}

-----------------------------------------------------------------------------
(* C15: a Venue A price change (side, price, size) sets that level, bid for  *)
(* BUY and ask for SELL, to exactly size, removes it when size is 0, and     *)
(* leaves every other level of the book as it was.                           *)

C15_PolyChangeSetsLevel ==
    last_op.op = "pm_delta" =>
        LET c == last_op.pm.changes[1] IN
        Levels(impl, order_books[last_op.id]) =
            WithLevel(impl, last_op.before, IF c.side = "BUY" THEN "bid" ELSE "ask",
                      c.price, c.size)

\* A SELL change replaces a resting ask by a different positive size while
\* the book holds another ask and a bid at the same price.
C15_Witness ==
    /\ last_op.op = "pm_delta"
    /\ last_op.pm.changes[1].side = "SELL"
    /\ last_op.pm.changes[1].size > 0
    /\ last_op.prev > 0
    /\ last_op.prev # last_op.pm.changes[1].size
    /\ StoredSize(impl, last_op.before, "bid", last_op.pm.changes[1].price) > 0
    /\ Cardinality(PricesOf(impl, last_op.before, "ask")) > 1
    /\ StoredSize(impl, order_books[last_op.id], "ask", last_op.pm.changes[1].price) =
            last_op.pm.changes[1].size

-----------------------------------------------------------------------------
(* C16: after a full snapshot of either venue the book holds exactly the     *)
(* levels the snapshot lists with a positive size and nothing of its         *)
(* previous state; applying the same snapshot again changes nothing.  A      *)
(* price listed twice counts with its last entry.                            *)

\* The listed positive-size levels of one side of a Venue A book message.
PolyListed(levels, sd) ==
    {<<sd, p, ListedSize(levels, p)>> : p \in {x \in Prices : ListedSize(levels, x) > 0}}

\* The listed positive-size levels of one side of a Venue B snapshot, at the
\* levels the applier gives its quotes.
KalshiListed(im, levels, side) ==
    UNION {{<<t[1], t[2], ListedSize(levels, c)>> : t \in SnapshotLevel(im, side, c)} :
            c \in {x \in Prices : ListedSize(levels, x) > 0}}

\* C16: after a full snapshot of either venue the book holds exactly the levels
\* the snapshot lists with a positive size and nothing of its previous state;
\* applying the same snapshot again changes nothing.  A price listed twice
\* counts with its last entry.
C16_SnapshotReplacesBook ==
    /\ last_op.op = "pm_book" =>
            /\ Levels(impl, order_books[last_op.id]) =
                    PolyListed(last_op.pm.bids, "bid") \cup PolyListed(last_op.pm.asks, "ask")
            /\ PolyApplier(impl, order_books[last_op.id], last_op.pm) = order_books[last_op.id]
    /\ last_op.op = "ks_snapshot" =>
            /\ Levels(impl, order_books[last_op.id]) =
                    KalshiListed(impl, last_op.ks.yes, "yes") \cup
                    KalshiListed(impl, last_op.ks.no, "no")
            /\ KalshiApplier(impl, order_books[last_op.id], last_op.ks) =
                    order_books[last_op.id]

\* The live Venue A applier took a book message that lists a bid and an ask
\* and a zero-size entry, on a book holding levels the message does not list.
C16_Witness ==
    /\ impl = "live"
    /\ last_op.op = "pm_book"
    /\ \E i \in 1..Len(last_op.pm.bids) : last_op.pm.bids[i][2] = 0
    /\ PolyListed(last_op.pm.bids, "bid") # {}
    /\ PolyListed(last_op.pm.asks, "ask") # {}
    /\ Levels(impl, last_op.before) \
            (PolyListed(last_op.pm.bids, "bid") \cup PolyListed(last_op.pm.asks, "ask")) # {}
    /\ Levels(impl, last_op.before) \cap Levels(impl, order_books[last_op.id]) # {}

-----------------------------------------------------------------------------
(* C17: a message with a malformed entry raises no exception out of the      *)
(* applier and leaves the book's bids and asks exactly as they were.         *)

C17_MalformedLeavesBook ==
    last_op.op \in {"pm_malformed", "ks_malformed"} =>
        /\ ~last_op.raised
        /\ order_books[last_op.id] = last_op.before

-----------------------------------------------------------------------------
(* C18: an event whose market identifier has no registered OrderBook is      *)
(* skipped: no book is created or changed, nothing else happens, and the     *)
(* next event is processed.                                                  *)

ReplaySkipsUnknownName ==
    [][(/\ pc = "apply"
        /\ log_entry.name \notin DOMAIN MARKET_MAPPING
        /\ pc' # pc)
       => /\ order_books' = order_books
          /\ pc' = "find"]_vars

-----------------------------------------------------------------------------
(* C19: in every reachable book the bids view is strictly descending in      *)
(* price and the asks view strictly ascending, so no price appears twice on  *)
(* a side; highest_bid is the first bid price and lowest_ask the first ask   *)
(* price, and each is None exactly when its side is empty.  Crossed books    *)
(* are reachable.                                                            *)

ViewsSorted(bids, asks, highest_bid, lowest_ask) ==
    /\ \A i \in 1..(Len(bids) - 1) : bids[i][1] > bids[i + 1][1]
    /\ \A i \in 1..(Len(asks) - 1) : asks[i][1] < asks[i + 1][1]
    /\ (highest_bid = None) <=> (bids = <<>>)
    /\ (lowest_ask = None) <=> (asks = <<>>)
    /\ bids # <<>> => highest_bid = bids[1][1]
    /\ asks # <<>> => lowest_ask = asks[1][1]

\* C19: in every reachable book the bids view is strictly descending in price
\* and the asks view strictly ascending, so no price appears twice on a side;
\* highest_bid is the first bid price and lowest_ask the first ask price, and
\* each is None exactly when its side is empty.  Crossed books are reachable.
C19_ViewsSortedBestFirst ==
    \A id \in BookIds :
        /\ IF impl = "v2"
           THEN ViewsSorted(V2_bids(order_books[id]), V2_asks(order_books[id]),
                            V2_highest_bid(order_books[id]), V2_lowest_ask(order_books[id]))
           ELSE ViewsSorted(OB_bids(order_books[id]), OB_asks(order_books[id]),
                            OB_highest_bid(order_books[id]), OB_lowest_ask(order_books[id]))
        /\ Len(IF impl = "v2" THEN V2_bids(order_books[id]) ELSE OB_bids(order_books[id])) =
                Cardinality(DOMAIN order_books[id].bids)
        /\ Len(IF impl = "v2" THEN V2_asks(order_books[id]) ELSE OB_asks(order_books[id])) =
                Cardinality(DOMAIN order_books[id].asks)

\* A delta has left a dict-based book with three bids and two asks whose
\* best bid is above its best ask.
C19_Witness ==
    /\ impl = "legacy"
    /\ last_op.op \in {"pm_delta", "ks_delta"}
    /\ Len(OB_bids(order_books[last_op.id])) = 3
    /\ Len(OB_asks(order_books[last_op.id])) = 2
    /\ OB_highest_bid(order_books[last_op.id]) > OB_lowest_ask(order_books[last_op.id])

-----------------------------------------------------------------------------
(* C20: for a market with a book on each venue the detector reports `buy on  *)
(* V1, sell on V2` exactly when V1 has an ask and V2 a bid, V2's best bid    *)
(* minus V1's best ask is more than the profit threshold and the size that   *)
(* can be traded is positive; both directions are looked at in every scan.   *)

\* The list the detector of replay_v2.py returned reports buy_id -> sell_id.
Reported(found, buy_id, sell_id) ==
    \E i \in 1..Len(found) : found[i].buy_id = buy_id /\ found[i].sell_id = sell_id

\* The condition of the specification, from the stored levels, for a profit
\* threshold given in tenths of a cent.
SameOutcomeCondition(books, buy_id, sell_id, threshold) ==
    LET askPrices == PricesOf(impl, books[buy_id], "ask")
        bidPrices == PricesOf(impl, books[sell_id], "bid")
    IN /\ askPrices # {}
       /\ bidPrices # {}
       /\ 10 * (MaxOf(bidPrices) - MinOf(askPrices)) > threshold
       /\ Min2(StoredSize(impl, books[buy_id], "ask", MinOf(askPrices)),
               StoredSize(impl, books[sell_id], "bid", MaxOf(bidPrices))) > 0

\* The detector of replay.py trades buy_id -> sell_id on these books.
LegacyTrades(books, buy_id, sell_id) ==
    theoretical_trade_size(V2_asks(books[buy_id]), V2_lowest_ask(books[buy_id]),
                           V2_bids(books[sell_id]), V2_highest_bid(books[sell_id])) > 0

\* C20: the scan reports buying on one venue and selling on the other exactly
\* when the other's best bid exceeds that venue's best ask by more than the
\* profit threshold and the size that can be traded is positive.
C20_SameOutcomeDetection ==
    LET Scan(found) ==
    \A m \in Markets :
        \A d \in {<<MARKET_MAPPING[m].polymarket, MARKET_MAPPING[m].kalshi>>,
                  <<MARKET_MAPPING[m].kalshi, MARKET_MAPPING[m].polymarket>>} :
            /\ Reported(found, d[1], d[2]) <=>
                    SameOutcomeCondition(order_books, d[1], d[2], 10 * PROFIT_THRESHOLD)
            /\ LegacyTrades(order_books, d[1], d[2]) <=>
                    SameOutcomeCondition(order_books, d[1], d[2], REPLAY_PROFIT_THRESHOLD)
    IN Scan(find_opportunities(order_books))

\* One scan has found both directions on market A.
C20_Witness ==
    /\ last_push.pushed
    /\ last_push.found = find_opportunities(order_books)
    /\ Reported(last_push.found, "pA", "kA")
    /\ Reported(last_push.found, "kA", "pA")

-----------------------------------------------------------------------------
(* C21: the size of a detected same-outcome opportunity is the smaller of    *)
(* the size resting at the buy venue's best ask and the size resting at the  *)
(* sell venue's best bid; no deeper level adds to it.                        *)

\* min(size at the best ask of buy_id, size at the best bid of sell_id).
BestLevelSize(books, buy_id, sell_id) ==
    Min2(StoredSize(impl, books[buy_id], "ask", MinOf(PricesOf(impl, books[buy_id], "ask"))),
         StoredSize(impl, books[sell_id], "bid", MaxOf(PricesOf(impl, books[sell_id], "bid"))))

\* C21: a same-outcome opportunity's size is the smaller of the size at the
\* best ask of the buy book and the size at the best bid of the sell book.
C21_SizeIsBestLevelMin ==
    LET Scan(found) ==
        /\ \A i \in 1..Len(found) :
              /\ found[i].size = BestLevelSize(order_books, found[i].buy_id, found[i].sell_id)
              /\ found[i].spread =
                    MaxOf(PricesOf(impl, order_books[found[i].sell_id], "bid")) -
                    MinOf(PricesOf(impl, order_books[found[i].buy_id], "ask"))
        /\ \A m \in Markets :
            \A d \in {<<MARKET_MAPPING[m].polymarket, MARKET_MAPPING[m].kalshi>>,
                      <<MARKET_MAPPING[m].kalshi, MARKET_MAPPING[m].polymarket>>} :
                LET size == normal_theoretical_trade_size(
                                V2_asks(order_books[d[1]]), V2_lowest_ask(order_books[d[1]]),
                                V2_bids(order_books[d[2]]), V2_highest_bid(order_books[d[2]]))
                IN size > 0 => size = BestLevelSize(order_books, d[1], d[2])
    IN Scan(find_opportunities(order_books))

\* The part of C21 that is about replay_v2.py alone.
DetectorSizeIsBestLevelMin ==
    LET Scan(found) ==
        \A i \in 1..Len(found) :
            found[i].size = BestLevelSize(order_books, found[i].buy_id, found[i].sell_id)
    IN Scan(find_opportunities(order_books))

-----------------------------------------------------------------------------
(* The detectors as functions of the books: find_opportunities of            *)
(* replay_v2.py, the cross-outcome check of replay.py and check_game_arbitrage *)
(* of main_trader.py, applied to books that hold levels larger than          *)
(* MAX_TRADE_SIZE.                                                           *)

DetectPrices == {40, 47, 50, 57}
DetectSizes == {2, 3, MAX_TRADE_SIZE + 1}
DetectAsks ==
    {<<>>, << <<40, 2>>, <<50, MAX_TRADE_SIZE + 1>> >>}
        \cup {<< <<p, z>> >> : p \in DetectPrices, z \in DetectSizes}
FewAsks == {<<>>, << <<40, MAX_TRADE_SIZE + 1>> >>, << <<47, 2>> >>}
DetectBids == {<<>>, << <<60, MAX_TRADE_SIZE + 1>> >>, << <<60, 2>>, <<50, 3>> >>}
FewBids == {<<>>, << <<55, 3>> >>}

\* order_book.py's class serves main_trader.py and replay.py, replay_v2.py has
\* its own.
DetectImpls == {"live", "v2"}

DetectBook(im, asks, bids) ==
    IF im = "v2"
    THEN V2_apply_levels(V2_apply_levels(OrderBook_init, "ask", asks), "bid", bids)
    ELSE OB_apply_levels(OB_apply_levels(OrderBook_init, "ask", asks), "bid", bids)

\* check_and_execute_cross_outcome_arb, steps 1 and 2: the lowest ask of a
\* market across its platforms, in the order of MARKET_MAPPING's keys; a later
\* platform replaces an earlier one only with a strictly lower ask.
BestAskAcross(books, market_name) ==
    LET poly_id1 == MARKET_MAPPING[market_name].polymarket
        kalshi_id1 == MARKET_MAPPING[market_name].kalshi
        p == OB_lowest_ask(books[poly_id1])
        k == OB_lowest_ask(books[kalshi_id1])
    IN IF p # None /\ (k = None \/ p <= k)
       THEN [ask |-> p, platform |-> "Polymarket", id |-> poly_id1]
       ELSE IF k # None THEN [ask |-> k, platform |-> "Kalshi", id |-> kalshi_id1]
       ELSE [ask |-> None, platform |-> "", id |-> ""]

\* Step 3: best_ask_a + best_ask_b >= 1.0 - PROFIT_THRESHOLD returns.
CrossCondition(a, b) ==
    /\ a.ask # None
    /\ b.ask # None
    /\ 10 * (a.ask + b.ask) < 1000 - REPLAY_PROFIT_THRESHOLD

\* Step 4: the size requested from both walks, 0 when the check returns
\* before it.
cross_theoretical_trade_size(books, market_a_name, market_b_name) ==
    LET Size(a, b) ==
            IF CrossCondition(a, b)
            THEN Min2(SumWithin(OB_asks(books[a.id]), 0, 99 - b.ask),
                      SumWithin(OB_asks(books[b.id]), 0, 99 - a.ask))
            ELSE 0
    IN Size(BestAskAcross(books, market_a_name), BestAskAcross(books, market_b_name))

DetectDone(op, id, size) == [NoOp EXCEPT !.op = op, !.id = id, !.size = size]

\* opportunities = find_opportunities(order_books)
FindOpportunities ==
    LET Record(found) ==
            DetectDone("find_opportunities", "",
                       IF found = <<>> THEN 0 ELSE found[1].size)
    IN /\ impl = "v2"
       /\ last_op = NoOp
       /\ last_op' = Record(find_opportunities(order_books))
       /\ UNCHANGED <<impl, order_books>>

\* check_game_arbitrage(canonical_name), no attempt on record.
CheckGame(market_name) ==
    /\ impl = "live"
    /\ last_op = NoOp
    /\ last_op' = DetectDone("check_game_arbitrage", market_name,
                             check_game_arbitrage(order_books, EmptyMap,
                                                  TRADE_COOLDOWN_SECONDS,
                                                  market_name).pair.trade_size)
    /\ UNCHANGED <<impl, order_books>>

\* Variant: the check is called for an update of either market of a pair.
CrossCheckTriggered_either(updated_market_name) == Complement(updated_market_name) # ""

\* if complementary_name and updated_market_name < complementary_name
\* (replay.py:341 and 392).
CrossCheckTriggered(updated_market_name) ==
    /\ Complement(updated_market_name) # ""
    /\ MarketRank[updated_market_name] < MarketRank[Complement(updated_market_name)]

\* The cross-outcome part of replay.py for an update of market_name:
\* check_and_execute_cross_outcome_arb(timestamp, updated_market_name,
\* complementary_name) up to step 4 when the condition of line 341 lets it be
\* called, nothing otherwise.
CheckCross(market_name) ==
    /\ impl = "live"
    /\ last_op = NoOp
    /\ last_op' = IF CrossCheckTriggered(market_name)
                  THEN DetectDone("check_and_execute_cross_outcome_arb", market_name,
                                  cross_theoretical_trade_size(order_books, market_name,
                                                               Complement(market_name)))
                  ELSE DetectDone("cross_outcome_check_skipped", market_name, 0)
    /\ UNCHANGED <<impl, order_books>>

DetectInit ==
    /\ impl \in DetectImpls
    /\ \E pa \in DetectAsks, kb \in DetectAsks, ka \in FewAsks, pb \in FewAsks,
          kab \in DetectBids, kbb \in FewBids :
            order_books =
                [id \in BookIds |->
                    IF id = "pA" THEN DetectBook(impl, pa, <<>>)
                    ELSE IF id = "kA" THEN DetectBook(impl, ka, kab)
                    ELSE IF id = "pB" THEN DetectBook(impl, pb, <<>>)
                    ELSE DetectBook(impl, kb, kbb)]
    /\ last_op = NoOp
    /\ ReplayIdle
    /\ LiveIdle

DetectNext ==
    /\ \/ FindOpportunities
       \/ \E m \in Markets : CheckGame(m)
       \/ \E m \in Markets : CheckCross(m)
    /\ UNCHANGED <<replay_vars, live_vars, sweep_vars, shutdown_vars>>

SpecDetect == DetectInit /\ [][DetectNext]_vars

-----------------------------------------------------------------------------
(* C22: no detector asks for more than MAX_TRADE_SIZE: the live size is      *)
(* min(MAX_TRADE_SIZE, liquidity at leg 1's best ask, liquidity at leg 2's   *)
(* best ask) and at least 1, and a backtest requests at most MAX_TRADE_SIZE  *)
(* from each book's walk.                                                    *)

\* The pair the live check of the recorded detection settled on.
DetectedPair ==
    check_game_arbitrage(order_books, EmptyMap, TRADE_COOLDOWN_SECONDS, last_op.id).pair

\* The live half: the submitted size of an accepted pair.
LiveSizeWithinCap ==
    LET Capped(pair) ==
            pair.found =>
                /\ pair.trade_size =
                        Min2(MAX_TRADE_SIZE,
                             Min2(OB_get_liquidity_at_price(order_books[pair.market_ids[1]],
                                                            pair.asks[1], "ask"),
                                  OB_get_liquidity_at_price(order_books[pair.market_ids[2]],
                                                            pair.asks[2], "ask")))
                /\ pair.trade_size >= 1
                /\ pair.trade_size <= MAX_TRADE_SIZE
                /\ pair.asks = <<OB_lowest_ask(order_books[pair.market_ids[1]]),
                                 OB_lowest_ask(order_books[pair.market_ids[2]])>>
    IN last_op.op = "check_game_arbitrage" => Capped(DetectedPair)

\* C22: the live size is min(MAX_TRADE_SIZE, liquidity at both best asks), at
\* least 1, and no backtest requests more than MAX_TRADE_SIZE from a walk.
C22_SizeWithinCap ==
    LET Scan(found) == \A i \in 1..Len(found) : found[i].size <= MAX_TRADE_SIZE
    IN /\ LiveSizeWithinCap
       /\ last_op.op = "find_opportunities" => Scan(find_opportunities(order_books))
       /\ last_op.op = "check_and_execute_cross_outcome_arb" => last_op.size <= MAX_TRADE_SIZE

\* The live cap at work: both best asks hold more than MAX_TRADE_SIZE and the
\* accepted pair is for MAX_TRADE_SIZE.
LiveCapBinds ==
    /\ last_op.op = "check_game_arbitrage"
    /\ DetectedPair.found
    /\ last_op.size = MAX_TRADE_SIZE
    /\ OB_get_liquidity_at_price(order_books[DetectedPair.market_ids[1]],
                                 DetectedPair.asks[1], "ask") > MAX_TRADE_SIZE

-----------------------------------------------------------------------------
(* C23: the live check accepts a pair only when its net profit per share is  *)
(* strictly above MIN_NET_PROFIT_PER_SHARE; at the margin exactly, or below  *)
(* it, nothing is accepted.                                                  *)

\* Net profit of an accepted pair, in cents: the payout of trade_size shares
\* less both asks and both fees (lines 127-134).
PairNetProfit(pair) ==
    LET Fee(i) == IF pair.platforms[i] = "Polymarket"
                  THEN pair.asks[i] * pair.trade_size * POLYMARKET_FEE_PERCENT
                  ELSE calculate_kalshi_fee(pair.trade_size, Rat(pair.asks[i], 1))
    IN 100 * pair.trade_size
           - (pair.asks[1] * pair.trade_size + pair.asks[2] * pair.trade_size + Fee(1) + Fee(2))

\* C23: an accepted pair has a net profit per share strictly above
\* MIN_NET_PROFIT_PER_SHARE; at or below the margin no attempt is made.
C23_AcceptedStrictlyAboveMargin ==
    LET Above(pair) ==
            pair.found => PairNetProfit(pair) > MIN_NET_PROFIT_PER_SHARE * pair.trade_size
    IN last_op.op = "check_game_arbitrage" => Above(DetectedPair)

\* What line 135 does guarantee: nothing below the margin is accepted.
AcceptedAtOrAboveMargin ==
    LET AtOrAbove(pair) ==
            pair.found => PairNetProfit(pair) >= MIN_NET_PROFIT_PER_SHARE * pair.trade_size
    IN last_op.op = "check_game_arbitrage" => AtOrAbove(DetectedPair)

\* A pair accepted with a net profit per share of exactly the margin.
AcceptedAtMargin ==
    /\ last_op.op = "check_game_arbitrage"
    /\ DetectedPair.found
    /\ PairNetProfit(DetectedPair) = MIN_NET_PROFIT_PER_SHARE * DetectedPair.trade_size

-----------------------------------------------------------------------------
(* C24: a cross-outcome opportunity is detected for a complementary pair     *)
(* (A, B) exactly when each outcome has an ask on some venue and the lowest  *)
(* ask of A across its venues plus the lowest ask of B across its venues is  *)
(* below 1 less the profit threshold.                                        *)

\* The lowest ask of a market over both of its venues, None when neither
\* venue has an ask.
LowestAskOfMarket(books, market_name) ==
    LET prices == (DOMAIN books[MARKET_MAPPING[market_name].polymarket].asks)
                      \cup (DOMAIN books[MARKET_MAPPING[market_name].kalshi].asks)
    IN IF prices = {} THEN None ELSE MinOf(prices)

\* Both lowest asks exist and their sum is below 1 - threshold (threshold in
\* tenths of a cent).
CrossOutcomeExists(books, market_a_name, market_b_name, threshold) ==
    /\ LowestAskOfMarket(books, market_a_name) # None
    /\ LowestAskOfMarket(books, market_b_name) # None
    /\ 10 * (LowestAskOfMarket(books, market_a_name)
                + LowestAskOfMarket(books, market_b_name)) < 1000 - threshold

\* The replay.py half: the check goes on to size and walk the two books
\* exactly when the condition holds.
ReplayCrossOutcomeIff ==
    last_op.op = "check_and_execute_cross_outcome_arb" =>
        (last_op.size > 0 <=>
            CrossOutcomeExists(order_books, last_op.id, Complement(last_op.id),
                               REPLAY_PROFIT_THRESHOLD))

\* C24: a cross-outcome opportunity is detected exactly when both outcomes
\* have a best ask and the two lowest asks sum to less than 1 - threshold.
C24_CrossOutcomeIff ==
    /\ ReplayCrossOutcomeIff
    /\ last_op.op = "check_game_arbitrage" =>
            (DetectedPair.found <=>
                CrossOutcomeExists(order_books, last_op.id, Complement(last_op.id),
                                   10 * MIN_NET_PROFIT_PER_SHARE))

\* The replay.py check has found a pair whose lowest asks are on one venue.
CrossOnOneVenue ==
    /\ last_op.op = "check_and_execute_cross_outcome_arb"
    /\ last_op.size > 0
    /\ BestAskAcross(order_books, "A").platform = BestAskAcross(order_books, "B").platform

-----------------------------------------------------------------------------
(* C25: find_opportunities returns the opportunities by non-increasing       *)
(* spread, so the opportunity acted on first (the one scheduled, in delay    *)
(* mode) has the largest spread of the scan.                                 *)

NonIncreasingSpread(opps) ==
    \A i \in 1..Len(opps) : \A j \in i..Len(opps) : opps[i].spread >= opps[j].spread

\* The opportunities in the order the executions of one entry took them.
ExecutedOpps == [i \in 1..Len(execs) |-> execs[i].opp]

\* C25: the scan is in non-increasing spread order, and what is executed or
\* scheduled first is the opportunity with the largest spread.
C25_LargestSpreadFirst ==
    /\ NonIncreasingSpread(find_opportunities(order_books))
    /\ last_push.pushed =>
            /\ \E k \in 1..Len(scheduled_trades) :
                    scheduled_trades[k] = <<last_push.execution_ts, last_push.found[1]>>
            /\ \A i \in 1..Len(last_push.found) :
                    last_push.found[1].spread >= last_push.found[i].spread
    /\ mode = "normal" => NonIncreasingSpread(ExecutedOpps)

\* A scan that found a smaller spread before a larger one, and scheduled the
\* larger.
C25_Witness ==
    /\ last_push.pushed
    /\ last_push.found = find_opportunities(order_books)
    /\ Len(last_push.found) >= 2
    /\ last_push.found[1].spread > last_push.found[2].spread
    /\ OppsOfMarkets(order_books, MarketOrder)[1].spread < last_push.found[1].spread

-----------------------------------------------------------------------------
(* C26: the detection that follows an event is for the canonical market of   *)
(* that event and its complement only: no opportunity is found, and no       *)
(* execution scheduled, for any other market.                                *)

\* The markets an event for name may lead to a detection for.
EventMarkets(name) == {name, Complement(name)}

\* C26: the detection that follows an event finds opportunities only for the
\* event's canonical market or its complement.
C26_DetectionOnlyForEventMarket ==
    [][(pc = "find" /\ pc' # "find") =>
            \A i \in 1..Len(last_push'.found) :
                last_push'.found[i].market_name \in EventMarkets(log_entry.name)]_vars

-----------------------------------------------------------------------------
(* C27: what a scheduling step adds to the pending queue.                    *)

\* How many times x is in the sequence.
CountIn(seq, x) == Cardinality({k \in DOMAIN seq : seq[k] = x})

\* The queue after is the queue before with item added once.
Gained(before, after, item) ==
    /\ Len(after) = Len(before) + 1
    /\ \A x \in Range(after) \cup Range(before) :
            CountIn(after, x) = CountIn(before, x) + (IF x = item THEN 1 ELSE 0)

EveryReturnedScheduledStep ==
    LET Step(found) ==
            /\ Len(scheduled_trades') = Len(scheduled_trades) + Len(found)
            /\ \A i \in 1..Len(found) :
                    <<current_ts + delay, found[i]>> \in Range(scheduled_trades')
    IN (pc = "find" /\ pc' = "next") => Step(find_opportunities(order_books))

FirstReturnedScheduledStep ==
    LET Step(found) ==
            IF found = <<>> THEN scheduled_trades' = scheduled_trades
            ELSE Gained(scheduled_trades, scheduled_trades', <<current_ts + delay, found[1]>>)
    IN (pc = "find" /\ pc' = "next") => Step(find_opportunities(order_books))

-----------------------------------------------------------------------------
(* replay_v2.py run_delay_mode, the loop over the delays: the log is read    *)
(* once and every delay is simulated on it from fresh books, one summary row *)
(* per delay.                                                                *)

MaxLines == 4
\* delays_ms = range(0, 2001, 100), in ticks.
DelaysMs == <<0, 1, 2>>

SweepEntries ==
    { KsEntry("A", KsSnapshot(<< <<60, 1>>, <<40, 1>> >>, <<>>)),
      KsEntry("A", KsSnapshot(<< <<60, MaxLevelSize>> >>, << <<60, 1>> >>)),
      PmEntry("A", PmChange("SELL", 40, 1)),
      PmEntry("A", PmChange("SELL", 59, 1)),
      PmEntry("Z", PmChange("SELL", 40, 1)) }

\* A log of MaxLines lines; dt is how far a line's timestamp is from the one
\* of the line before.
Logs ==
    {[i \in 1..MaxLines |-> [entry |-> f[i][1], dt |-> f[i][2]]] :
        f \in [1..MaxLines -> SweepEntries \X TsSteps]}

\* The body of the loop over the log for lines i.. (lines 291-325), from the
\* books, the heap and the totals reached before line i, which is read at ts.
RECURSIVE DelayLoop(_, _, _, _, _, _, _)
DelayLoop(lines, i, d, ts, books, heap, tot) ==
    IF i > Len(lines) THEN [ok |-> TRUE, totals |-> tot, books |-> books, heap |-> heap]
    ELSE LET Pushed(books2, tot2, r) ==
                 IF ~r.ok THEN [ok |-> FALSE, totals |-> tot2, books |-> books2, heap |-> r.heap]
                 ELSE DelayLoop(lines, i + 1, d,
                                IF i < Len(lines) THEN ts + lines[i + 1].dt ELSE ts,
                                books2, r.heap, tot2)
             Found(books2, heap2, tot2, found) ==
                 Pushed(books2, tot2,
                        IF found # <<>>
                        THEN heappush(heap2, <<ExecutionTs(ts, d), found[1]>>)
                        ELSE [ok |-> TRUE, heap |-> heap2])
             Due(r) ==
                 IF ~r.ok THEN [ok |-> FALSE, totals |-> r.totals, books |-> r.books,
                                heap |-> r.heap]
                 ELSE Found(process_log_entry(lines[i].entry, r.books), r.heap, r.totals,
                            find_opportunities(process_log_entry(lines[i].entry, r.books)))
         IN Due(RunDueAt(heap, books, tot, <<>>,
                         [ts |-> ts, idx |-> i, applied |-> i - 1]))

\* Variant: a delay's simulation goes on from what the one before it left.
StartOfDelay_kept(left) == left

\* Lines 282-289: what the simulation of a delay starts from, whatever the
\* simulation before it has left in the three local variables: a new dict with
\* a new OrderBook for every listed market id, an empty list, zero totals.
StartOfDelay(left) == [books |-> InitOrderBooks, heap |-> <<>>, totals |-> ZeroTotals]

\* for delay in delays_ms: the simulation of one delay and its summary row.
\* order_books, scheduled_trades and the totals are locals of run_delay_mode:
\* they keep what a simulation left until lines 282-289 assign them again.
SimulateDelay ==
    LET Row(d, r) ==
            /\ order_books' = r.books
            /\ scheduled_trades' = r.heap
            /\ totals' = r.totals
            /\ IF r.ok
               THEN /\ csv_rows' = Append(csv_rows,
                                          [delay |-> d, total_trades |-> r.totals.total_trades,
                                           total_profit |-> r.totals.total_profit,
                                           total_volume |-> r.totals.total_volume,
                                           total_fees |-> r.totals.total_fees])
                    /\ pc' = pc
               ELSE /\ csv_rows' = csv_rows
                    /\ pc' = "crashed"
        Started(d, start) ==
            Row(d, DelayLoop(parsed_lines, 1, d, parsed_lines[1].dt, start.books,
                             start.heap, start.totals))
        Simulate(d) ==
            /\ delay' = d
            /\ Started(d, StartOfDelay([books |-> order_books, heap |-> scheduled_trades,
                                        totals |-> totals]))
    IN /\ mode = "delay" /\ pc = "sweep"
       /\ Len(csv_rows) < Len(DelaysMs)
       /\ Simulate(DelaysMs[Len(csv_rows) + 1])
       /\ UNCHANGED <<impl, last_op, mode, log_idx, current_ts, log_entry, applied,
                      TRADE_ID_COUNTER, execs, last_push, parsed_lines>>

\* Delay analysis complete.
SweepDone ==
    /\ mode = "delay" /\ pc = "sweep"
    /\ Len(csv_rows) = Len(DelaysMs)
    /\ pc' = "done"
    /\ UNCHANGED <<book_vars, mode, delay, log_idx, current_ts, log_entry, applied,
                   scheduled_trades, totals, TRADE_ID_COUNTER, csv_rows, execs, last_push,
                   parsed_lines>>

SweepInit ==
    /\ impl = "v2"
    /\ order_books = InitOrderBooks
    /\ last_op = NoOp
    /\ mode = "delay"
    /\ delay = 0
    /\ pc = "sweep"
    /\ log_idx = 0
    /\ current_ts = 0
    /\ log_entry = NoEntry
    /\ applied = 0
    /\ scheduled_trades = <<>>
    /\ totals = ZeroTotals
    /\ TRADE_ID_COUNTER = 0
    /\ csv_rows = <<>>
    /\ execs = <<>>
    /\ last_push = NoPush
    /\ parsed_lines \in Logs
    /\ LiveIdle

SweepNext == (SimulateDelay \/ SweepDone) /\ UNCHANGED <<live_vars, shutdown_vars>>

SpecSweep == SweepInit /\ [][SweepNext]_vars

-----------------------------------------------------------------------------
(* C28: on one log, the simulation with no delay credits at least as many    *)
(* profitable trades as the simulation with any larger delay.                *)

C28_NoDelayCreditsMost ==
    \A k \in DOMAIN csv_rows : csv_rows[1].total_trades >= csv_rows[k].total_trades

-----------------------------------------------------------------------------
(* C29 and C30: what execute_complimentary_buy_trade has done when it ends.  *)

\* C29: when both legs of an attempt succeeded, or both failed, the attempt
\* has submitted exactly two orders, the two buys, and nothing after them.
C29_TwoSubmissionsWhenLegsAgree ==
    (last_done.pc # "none" /\ last_done.success[1] = last_done.success[2]) =>
        /\ Len(last_done.orders) = 2
        /\ \A k \in 1..2 : last_done.orders[k] = BuyOrder(last_done, k)

\* An attempt has ended with both legs succeeded, after two submissions.
C29_Witness ==
    /\ last_done.pc = "finished"
    /\ last_done.success = <<TRUE, TRUE>>
    /\ last_done.outcome = "both"
    /\ Len(last_done.orders) = 2

\* An attempt has ended with both legs failed.
BothLegsFailed ==
    /\ last_done.pc = "finished"
    /\ last_done.success = <<FALSE, FALSE>>
    /\ last_done.outcome = "none"

\* C30: whatever the two legs returned, a result or none, on the first
\* attempt of a run as on later ones, the coordinator ends without raising,
\* having classified the attempt as one of the four outcomes.
C30_CoordinatorAlwaysClassifies ==
    last_done.pc # "none" =>
        /\ last_done.pc = "finished"
        /\ last_done.outcome \in {"both", "none", "first_only", "second_only"}

\* What holds of the attempts that follow one whose Polymarket leg returned a
\* result: they end classified.
ClassifiedOncePolyIdBound ==
    (last_done.pc # "none" /\ poly_id = "set") =>
        /\ last_done.pc = "finished"
        /\ last_done.outcome \in {"both", "none", "first_only", "second_only"}

-----------------------------------------------------------------------------
(* C31: the consumer and an execution under way.                             *)

\* An execution task exists and has not posted its first order yet.
ExecutionCreated == \E t \in DOMAIN tasks : tasks[t].pc = "created"

\* C31: while an order submission of a live attempt is outstanding, the
\* consumer can take and apply the next queued event; an execution that has
\* started never holds the queued events back until its orders are answered.
C31_ConsumerRunsDuringSubmission ==
    (LoopHeld /\ queue # <<>>) => ENABLED Consume

\* What asyncio.create_task gives: an execution that has been created and has
\* posted nothing, and an execution between its legs or waiting to be
\* classified, do not hold the consumer back.
ConsumerRunsBetweenTurns ==
    (~LoopHeld /\ queue # <<>>) => ENABLED Consume

\* An execution has been created, an event is queued behind it, and none of
\* its orders has been posted.
CreatedWithEventQueued ==
    ExecutionCreated /\ ~LoopHeld /\ queue # <<>>

-----------------------------------------------------------------------------
(* The end of a live run: run_trader (main_trader.py:304-329) under          *)
(* asyncio.run (line 331).  run_trader keeps no reference to the execution   *)
(* tasks that check_and_execute_arbitrage_pair creates.                      *)

\* listen() of one of the two listeners raises: the gather of line 317 takes
\* the exception and run_trader will be resumed with it.  gather does not
\* cancel its other awaitables: the other listener and the consumer go on.
ListenerFails ==
    /\ run_state.phase = "running"
    /\ ~LoopHeld
    /\ run_state' = [run_state EXCEPT !.phase = "listener_failed"]
    /\ UNCHANGED <<book_vars, replay_vars, live_vars, sweep_vars>>

\* The user interrupts: run_trader is cancelled in its gather, which cancels
\* the two listeners and the consumer.  The execution tasks are not in the
\* gather.
Interrupt ==
    /\ run_state.phase = "running"
    /\ run_state' = [run_state EXCEPT !.phase = "interrupted", !.accepting = FALSE]
    /\ UNCHANGED <<book_vars, replay_vars, live_vars, sweep_vars>>

\* run_trader is resumed with the exception: finally: stop_tor(tor_process)
\* (lines 322-325), and it ends.  Nothing is awaited or closed before.
RunTraderFinally ==
    /\ run_state.phase \in {"listener_failed", "interrupted"}
    /\ ~LoopHeld
    /\ run_state' = [run_state EXCEPT !.phase = "returned", !.tor = "stopped"]
    /\ UNCHANGED <<book_vars, replay_vars, live_vars, sweep_vars>>

\* asyncio.run closes the loop: every task that has not ended is cancelled, an
\* execution task in its gather (trader.py:183) among them; a leg that has not
\* started never posts its order.
CancelAllTasks ==
    /\ run_state.phase = "returned"
    /\ ~LoopHeld
    /\ run_state' = [run_state EXCEPT !.phase = "closed", !.accepting = FALSE,
                                      !.cancelled = tasks]
    /\ tasks' = <<>>
    /\ UNCHANGED <<book_vars, replay_vars, now, LAST_GAME_TRADE_ATTEMPT, queue, poly_id,
                   attempts, last_done, sweep_vars>>

\* The listeners and the consumer, as long as nothing has cancelled them.
FeedStep ==
    /\ run_state.accepting
    /\ ListenerPut \/ Consume

\* The clock and the execution tasks, as long as the loop runs.
LoopStep ==
    /\ run_state.phase # "closed"
    /\ \/ Tick
       \/ \E t \in DOMAIN tasks : TaskStart(t)
       \/ \E t \in DOMAIN tasks : LegPost(t)
       \/ \E t \in DOMAIN tasks : LegReturn(t)
       \/ \E t \in DOMAIN tasks : Classify(t)

ShutdownNext ==
    \/ (FeedStep \/ LoopStep) /\ UNCHANGED <<impl, last_op, replay_vars, sweep_vars, shutdown_vars>>
    \/ ListenerFails
    \/ Interrupt
    \/ RunTraderFinally
    \/ CancelAllTasks

SpecShutdown == LiveInit /\ [][ShutdownNext]_vars

-----------------------------------------------------------------------------
(* C32: the order of a shutdown.                                             *)

\* Once the shutdown has begun no listener or consumer step is possible.
StopsAcceptingEvents == run_state.phase # "running" => ~run_state.accepting

\* Tor is stopped only when no execution task is left to run.
ProxyReleasedAfterExecutions ==
    run_state.tor = "stopped" => (tasks = <<>> /\ run_state.cancelled = <<>>)

\* No task is dropped after it has posted an order.
NoTaskAbandonedAfterSubmission ==
    \A i \in DOMAIN run_state.cancelled : run_state.cancelled[i].orders = <<>>

\* C32: when a live run shuts down (interrupt, or a listener that ends) no new
\* event is accepted, every execution task in flight runs to its end, only
\* then is the proxy released, and no task is abandoned between its first
\* order and its classification.
C32_GracefulShutdown ==
    /\ StopsAcceptingEvents
    /\ ProxyReleasedAfterExecutions
    /\ NoTaskAbandonedAfterSubmission

\* A task is cancelled at the close with both its orders posted and answered.
AbandonedAfterBothOrders ==
    \E i \in DOMAIN run_state.cancelled :
        /\ Len(run_state.cancelled[i].orders) = 2
        /\ Len(run_state.cancelled[i].results) = 2

\* A task is created, and posts an order, after Tor has been stopped.
OrderPostedAfterTorStopped ==
    /\ run_state.tor = "stopped"
    /\ \E t \in DOMAIN tasks : Outstanding(tasks[t])

-----------------------------------------------------------------------------
(* The fee functions on their own: calculate_kalshi_fee of fees.py (used by *)
(* main_trader.py and replay.py) and its copy in replay_v2.py, and the       *)
(* Polymarket fee of main_trader.py.  Prices are in cents.                   *)

\* The trade sizes and prices the fee is computed for; 100 at 50 cents is the
\* documented example.
FeeSizes == {0 - 1, 0, 1, 2, 4, 5, 8, 100}
FeePrices == {0 - 1, 0, 1, 25, 40, 50, 60, 99, 100, 101}
FeeImpls == {"live", "v2"}

FeeCall(op, trade_size, price, fee) ==
    [op |-> op, trade_size |-> trade_size, price |-> price, fee |-> fee]

\* fee = calculate_kalshi_fee(trade_size, price)
CalculateKalshiFee ==
    /\ last_op.op = "input"
    /\ last_op' = FeeCall("calculate_kalshi_fee", last_op.trade_size, last_op.price,
                          calculate_kalshi_fee(last_op.trade_size, Rat(last_op.price, 1)))
    /\ UNCHANGED <<impl, order_books>>

\* The fee of a Polymarket leg in check_and_execute_arbitrage_pair.
PolymarketFee ==
    /\ impl = "live"
    /\ last_op.op = "input"
    /\ last_op' = FeeCall("polymarket_fee", last_op.trade_size, last_op.price,
                          polymarket_fee(last_op.trade_size, last_op.price))
    /\ UNCHANGED <<impl, order_books>>

FeeInit ==
    /\ impl \in FeeImpls
    /\ order_books = InitOrderBooks
    /\ \E trade_size \in FeeSizes, price \in FeePrices :
          last_op = FeeCall("input", trade_size, price, 0)
    /\ ReplayIdle
    /\ LiveIdle

FeeNext ==
    /\ CalculateKalshiFee \/ PolymarketFee
    /\ UNCHANGED <<replay_vars, live_vars, sweep_vars, shutdown_vars>>

SpecFee == FeeInit /\ [][FeeNext]_vars

-----------------------------------------------------------------------------
(* C33 and C34: the value of the fee.                                        *)

\* The exact fee 0.07 * trade_size * price * (1 - price), in cents, rounded up
\* to a whole cent.
ExactFeeCeiling(trade_size, price) == CeilDiv(7 * trade_size * price * (100 - price), 10000)

\* The call is one with trade_size > 0 and 0 < price < 1.
FeeCharged ==
    /\ last_op.op = "calculate_kalshi_fee"
    /\ last_op.trade_size > 0
    /\ last_op.price > 0
    /\ last_op.price < 100

\* C33: for size > 0 and 0 < price < 1 the Kalshi fee is the exact fee
\* 0.07 * size * price * (1 - price) rounded up to the next whole cent, never
\* down; the fee of 100 contracts at 0.50 is 1.75.
C33_FeeIsExactCeiling ==
    FeeCharged => last_op.fee = ExactFeeCeiling(last_op.trade_size, last_op.price)

\* What the float computation keeps: the fee is never below the exact ceiling
\* and at most one cent above it.
FeeWithinACentAboveExact ==
    FeeCharged =>
        /\ last_op.fee >= ExactFeeCeiling(last_op.trade_size, last_op.price)
        /\ last_op.fee <= ExactFeeCeiling(last_op.trade_size, last_op.price) + 1

\* The documented example has been computed.
FeeOfHundredAtHalf ==
    FeeCharged /\ last_op.trade_size = 100 /\ last_op.price = 50

\* C34: calculate_kalshi_fee returns 0 whenever size <= 0 or price <= 0 or
\* price >= 1, and the fee of a Polymarket leg is 0 for every size and price.
C34_ZeroFeeOutsideRange ==
    /\ (/\ last_op.op = "calculate_kalshi_fee"
        /\ (last_op.trade_size <= 0 \/ last_op.price <= 0 \/ last_op.price >= 100))
           => last_op.fee = 0
    /\ last_op.op = "polymarket_fee" => last_op.fee = 0

\* The fee of 100 contracts at a price above 1 has been computed.
C34_Witness ==
    /\ last_op.op = "calculate_kalshi_fee"
    /\ last_op.trade_size = 100
    /\ last_op.price = 101
    /\ last_op.fee = 0

\* The Polymarket fee of 100 contracts at 0.50 has been computed.
PolymarketFeeComputed ==
    /\ last_op.op = "polymarket_fee"
    /\ last_op.trade_size = 100
    /\ last_op.price = 50
    /\ last_op.fee = 0

-----------------------------------------------------------------------------
(* Level updates at the resolution of the 1e-9 threshold.  Sizes are counted *)
(* in half units of 1e-9, so that a residual can lie strictly between 0 and  *)
(* 1e-9 (size 1), on it (size 2) or above it.                                *)

\* 1e-9 in half units of 1e-9 (replay_v2.py:58, replay.py:116).
EpsilonUnits == 2
MaxFineSize == 4
FineSizes == 0..MaxFineSize
FinePrices == {40, 50}

\* book._update_book_level(side, price, size) of the implementation.
FineUpdate(im, book, side, price, size) ==
    IF im = "v2" THEN V2_update_level(EpsilonUnits, book, side, price, size)
    ELSE OB_update_book_level(book, side, price, size)

\* execute_trade_on_book(book, side_to_hit, size_to_trade) of the implementation.
FineWalk(im, book, side_to_hit, size_to_trade) ==
    IF im = "v2" THEN V2_execute_trade(EpsilonUnits, book, side_to_hit, size_to_trade)
    ELSE OB_execute_trade(EpsilonUnits, book, side_to_hit, size_to_trade)

FineDone(op, side, price, size, before) ==
    [op |-> op, side |-> side, price |-> price, size |-> size, before |-> before]

\* A level is set to a size: a snapshot level or a Polymarket price change.
SetLevel ==
    \E side \in BookSides, price \in FinePrices, size \in FineSizes :
        /\ order_books' = [order_books EXCEPT !["kA"] = FineUpdate(impl, @, side, price, size)]
        /\ last_op' = FineDone("set", side, price, size, order_books["kA"])

\* A signed delta: the level becomes its current size plus the delta
\* (kalshi/recreate.py:55-63, replay_v2.py robust_update_kalshi_order_book).
SignedDelta ==
    \E side \in BookSides, price \in FinePrices, d \in (0 - MaxFineSize)..MaxFineSize :
        LET current_size == StoredSize(impl, order_books["kA"], side, price) IN
        /\ current_size + d <= MaxFineSize
        /\ order_books' = [order_books EXCEPT
                               !["kA"] = FineUpdate(impl, @, side, price, current_size + d)]
        /\ last_op' = FineDone("delta", side, price, current_size + d, order_books["kA"])

\* A walk of one side of the book.
WalkFine ==
    \E side \in BookSides, size \in 1..MaxFineSize :
        /\ order_books' = [order_books EXCEPT !["kA"] = FineWalk(impl, @, side, size).book]
        /\ last_op' = FineDone("walk", side, 0, size, order_books["kA"])

FineInit ==
    /\ impl \in WalkImpls
    /\ order_books = InitOrderBooks
    /\ last_op = FineDone("none", "", 0, 0, OrderBook_init)
    /\ ReplayIdle
    /\ LiveIdle

FineNext ==
    /\ SetLevel \/ SignedDelta \/ WalkFine
    /\ impl' = impl
    /\ UNCHANGED <<replay_vars, live_vars, sweep_vars, shutdown_vars>>

SpecFine == FineInit /\ [][FineNext]_vars

-----------------------------------------------------------------------------
(* C35: sizes of at most 1e-9 count as zero.                                 *)

\* No level of the book holds a size of 1e-9 or less.
NoResidualLevel(im, book) ==
    \A side \in BookSides : \A price \in PricesOf(im, book, side) :
        StoredSize(im, book, side, price) > EpsilonUnits

\* C35: a level update whose resulting size is at most 1e-9 removes the level
\* and never stores it: after a set, a signed delta or a walk no level of the
\* book holds a size of 1e-9 or less, so no such price is the best bid or ask.
C35_ResidualIsZero == NoResidualLevel(impl, order_books["kA"])

\* The same for the book class of replay_v2.py alone.
V2ResidualIsZero == impl = "v2" => NoResidualLevel(impl, order_books["kA"])

\* A walk has reduced a level of the replay_v2.py book to a residual of 1e-9 or
\* less, and the level is gone.
V2WalkLeftNoResidual ==
    /\ impl = "v2"
    /\ last_op.op = "walk"
    /\ \E price \in FinePrices :
          /\ StoredSize(impl, last_op.before, "ask", price) - last_op.size \in 1..EpsilonUnits
          /\ PricesOf(impl, last_op.before, "ask") = {price}
          /\ PricesOf(impl, order_books["kA"], "ask") = {}

\* A walk has left a residual below 1e-9 in the order_book.py book, and its
\* price is the best ask.
LegacyWalkLeftResidual ==
    /\ impl = "legacy"
    /\ last_op.op = "walk"
    /\ \E price \in FinePrices :
          /\ StoredSize(impl, order_books["kA"], "ask", price) = 1
          /\ OB_lowest_ask(order_books["kA"]) = price

-----------------------------------------------------------------------------
(* C36: which member's update leads to the cross-outcome check.              *)

\* Whether the live check called for market_name creates an execution task.
LiveDetects(books, market_name) ==
    check_game_arbitrage(books, EmptyMap, TRADE_COOLDOWN_SECONDS, market_name).pair.found

\* C36: an update of either market of a complementary pair leads to the
\* cross-outcome check of the pair; a pair that an update of B makes available
\* is detected on that update, as one that an update of A makes available.
C36_EitherMemberTriggers ==
    /\ last_op.op = "cross_outcome_check_skipped" => Complement(last_op.id) = ""
    /\ last_op.op = "check_game_arbitrage" =>
           (LiveDetects(order_books, last_op.id)
               <=> LiveDetects(order_books, Complement(last_op.id)))

\* The live half: check_game_arbitrage finds a pair of books to buy on an
\* update of one market exactly when it finds one on an update of the other
\* (with both scenarios profitable the two calls start from different ones).
LiveEitherMemberTriggers ==
    last_op.op = "check_game_arbitrage" =>
        (LiveDetects(order_books, last_op.id)
            <=> LiveDetects(order_books, Complement(last_op.id)))

\* The live check has accepted a pair on an update of the second market.
LiveDetectedOnSecondMember ==
    /\ last_op.op = "check_game_arbitrage"
    /\ last_op.id = "B"
    /\ last_op.size > 0

\* replay.py skipped the check on an update of B while the pair satisfies the
\* cross-outcome condition.
SkippedWithPairAvailable ==
    /\ last_op.op = "cross_outcome_check_skipped"
    /\ last_op.id = "B"
    /\ CrossOutcomeExists(order_books, "A", "B", REPLAY_PROFIT_THRESHOLD)

-----------------------------------------------------------------------------
(* C37: what an execution attempt takes out of the two books.                *)

\* What the attempt of a record removed from the asks of its buy book and from
\* the bids of its sell book.
RemovedFromBuy(rec) == rec.buy_liquidity - rec.buy_left
RemovedFromSell(rec) == rec.sell_liquidity - rec.sell_left

\* C37: an execution attempt removes from each leg's book exactly the recorded
\* trade size: a rejected attempt (a leg filled nothing, or the net profit is
\* not positive) leaves both books as they were, and when the legs fill
\* unequally neither book loses more than the smaller fill.
C37_BooksLoseRecordedSize ==
    \A i \in DOMAIN execs :
        LET rec == execs[i] IN
        /\ Credited(rec) =>
               /\ RemovedFromBuy(rec) = rec.actual_size
               /\ RemovedFromSell(rec) = rec.actual_size
        /\ ~Credited(rec) =>
               /\ RemovedFromBuy(rec) = 0
               /\ RemovedFromSell(rec) = 0

\* What the code does: each book loses what its own walk filled, whatever the
\* other leg filled and whether or not the attempt is recorded.
BooksLoseWhatEachWalkFilled ==
    \A i \in DOMAIN execs :
        /\ RemovedFromBuy(execs[i]) = execs[i].executed_buy
        /\ RemovedFromSell(execs[i]) = execs[i].executed_sell

\* A recorded attempt whose legs filled the same size takes exactly the
\* recorded size from both books.
EqualFillsLoseRecordedSize ==
    \A i \in DOMAIN execs :
        (Credited(execs[i]) /\ execs[i].executed_buy = execs[i].executed_sell) =>
            /\ RemovedFromBuy(execs[i]) = execs[i].actual_size
            /\ RemovedFromSell(execs[i]) = execs[i].actual_size

\* An attempt that was not recorded although both legs filled: its net profit
\* was not positive, and both books have lost what was filled.
RejectedAttemptConsumedBooks ==
    \E i \in DOMAIN execs :
        /\ ~Credited(execs[i])
        /\ execs[i].actual_size > 0
        /\ RemovedFromBuy(execs[i]) > 0
        /\ RemovedFromSell(execs[i]) > 0

\* An attempt one leg of which filled nothing while the other book lost levels.
ZeroFillConsumedOtherBook ==
    \E i \in DOMAIN execs :
        /\ execs[i].actual_size = 0
        /\ RemovedFromBuy(execs[i]) + RemovedFromSell(execs[i]) > 0

\* A recorded attempt one book of which lost more than the recorded size.
RecordedAttemptLostMore ==
    \E i \in DOMAIN execs :
        /\ Credited(execs[i])
        /\ Max2(RemovedFromBuy(execs[i]), RemovedFromSell(execs[i])) > execs[i].actual_size

-----------------------------------------------------------------------------
(* C38: a scheduled execution is taken from the pending queue once.          *)

\* How many of the executions of recs were of the queue item x.
ExecutedCount(recs, x) ==
    Cardinality({k \in DOMAIN recs : <<recs[k].execution_ts, recs[k].opp>> = x})

\* One step of the delay loop: the step that runs what is due executes exactly
\* the items it takes out of the queue, once each, recorded or not, and they
\* are not in the queue afterwards (a step that fails in heappop loses the item
\* it was taking); no other step takes anything out of the queue or executes.
TakenOnceStep ==
    mode = "delay" =>
        /\ pc = "due" =>
               /\ \A x \in Range(scheduled_trades) \cup Range(scheduled_trades') :
                      CountIn(scheduled_trades', x) + ExecutedCount(execs', x)
                          <= CountIn(scheduled_trades, x)
               /\ pc' # "crashed" =>
                      /\ Len(scheduled_trades') + Len(execs') = Len(scheduled_trades)
                      /\ \A k \in DOMAIN execs' :
                             CountIn(scheduled_trades',
                                     <<execs'[k].execution_ts, execs'[k].opp>>) = 0
        /\ pc # "due" =>
               /\ \A x \in Range(scheduled_trades) :
                      CountIn(scheduled_trades', x) >= CountIn(scheduled_trades, x)
               /\ execs' \in {execs, <<>>}

\* After a log entry has been fully processed the queue holds no execution
\* with a timestamp at or before the entry's.
NothingPendingAtProcessedTs ==
    (mode = "delay" /\ pc = "next" /\ log_idx > 0) =>
        \A k \in DOMAIN scheduled_trades : scheduled_trades[k][1] > current_ts

\* When a log entry is applied and scanned the queue holds no execution with a
\* timestamp at or before the entry's; once the entry is fully processed the
\* only such execution is the one the entry itself scheduled with delay 0.
NothingDueWhenApplied ==
    /\ (mode = "delay" /\ pc \in {"apply", "find"}) =>
           \A k \in DOMAIN scheduled_trades : scheduled_trades[k][1] > current_ts
    /\ (mode = "delay" /\ pc = "next" /\ log_idx > 0) =>
           \A k \in DOMAIN scheduled_trades :
               /\ scheduled_trades[k][1] >= current_ts
               /\ scheduled_trades[k][1] = current_ts => delay = 0

\* C38 as stated: each scheduled execution is executed at most once, being
\* discarded when taken from the queue whether or not its trade is profitable,
\* and the queue never holds an execution whose timestamp is at or before the
\* timestamp of a fully processed log entry.
C38_ExecutedOnceNothingOverdue == [][TakenOnceStep /\ NothingPendingAtProcessedTs']_vars

\* C38 (amended): each scheduled execution is executed at most once and is
\* discarded when taken, profitable or not; no execution with a timestamp at
\* or before a log entry's timestamp is pending when that entry is applied;
\* with delay 0 the execution an entry schedules has the entry's own
\* timestamp and is pending from the end of that entry's processing until the
\* next entry is read.
C38_ExecutedOnceNothingDueWhenApplied == [][TakenOnceStep /\ NothingDueWhenApplied']_vars

\* An execution of a delay-0 run was taken from the queue, was not credited,
\* and is not in the queue any more, while the entry that followed has been
\* applied.
C38_Witness ==
    /\ mode = "delay" /\ delay = 0 /\ pc = "find"
    /\ \E i \in DOMAIN execs :
           /\ ~Credited(execs[i])
           /\ execs[i].execution_ts <= current_ts
           /\ CountIn(scheduled_trades, <<execs[i].execution_ts, execs[i].opp>>) = 0

\* With delay 0 a fully processed entry has left its own execution pending.
PendingAtProcessedTs ==
    /\ mode = "delay" /\ pc = "next" /\ log_idx > 0
    /\ \E k \in DOMAIN scheduled_trades : scheduled_trades[k][1] = current_ts

-----------------------------------------------------------------------------
(* C39: the simulations of the delays of one sweep do not affect each other. *)

\* The simulation of delay d alone on the log, from new books.
Standalone(d) ==
    DelayLoop(parsed_lines, 1, d, parsed_lines[1].dt, InitOrderBooks, <<>>, ZeroTotals)

\* The summary row reports the totals of the simulation r.
RowReports(row, r) ==
    /\ r.ok
    /\ row.total_trades = r.totals.total_trades
    /\ row.total_profit = r.totals.total_profit
    /\ row.total_volume = r.totals.total_volume
    /\ row.total_fees = r.totals.total_fees

\* C39: the simulation of every delay starts from empty books, an empty
\* pending queue and zero totals: the row reported for a delay is the one its
\* simulation alone gives on the log, whichever delays were simulated before
\* it in the sweep.
C39_DelayRunsIndependent ==
    \A k \in DOMAIN csv_rows : RowReports(csv_rows[k], Standalone(csv_rows[k].delay))

\* The simulation r ended with levels in a book, an execution still pending
\* and a credited trade.
LeftSomething(r) ==
    /\ r.ok
    /\ r.books # InitOrderBooks
    /\ r.heap # <<>>
    /\ r.totals.total_trades > 0

\* A second row has been written after a first simulation that left levels, a
\* pending execution and non-zero totals behind, and the two rows differ.
C39_Witness ==
    /\ Len(csv_rows) >= 2
    /\ LeftSomething(Standalone(csv_rows[1].delay))
    /\ csv_rows[2].total_trades # csv_rows[1].total_trades

-----------------------------------------------------------------------------
(* C40: what execute_trade_on_book leaves alone.  The calls are made on the  *)
(* two books of market A, each of which starts with any of a few sets of     *)
(* resting levels, while the other book keeps its own.                       *)

WalkBids == {<<>>, << <<60, 2>> >>, << <<60, 1>>, <<50, 2>> >>}
WalkAsks == {<<>>, << <<40, 2>> >>, << <<40, 1>>, <<50, 2>> >>}
WalkIds == {"pA", "kA"}

WalkBook(im, asks, bids) ==
    IF im = "v2"
    THEN V2_apply_levels(V2_apply_levels(OrderBook_init, "ask", asks), "bid", bids)
    ELSE OB_apply_levels(OB_apply_levels(OrderBook_init, "ask", asks), "bid", bids)

WalkInit ==
    /\ impl \in WalkImpls
    /\ \E pa \in WalkAsks, pb \in WalkBids, ka \in WalkAsks, kb \in WalkBids :
           order_books = [InitOrderBooks EXCEPT !["pA"] = WalkBook(impl, pa, pb),
                                                !["kA"] = WalkBook(impl, ka, kb)]
    /\ last_op = NoOp
    /\ ReplayIdle
    /\ LiveIdle

\* execute_trade_on_book(book, side_to_hit, size_to_trade) on one of the books.
WalkStep == last_op = NoOp /\ \E id \in WalkIds : Walk(id)

WalkNext ==
    (WalkStep \/ DiscardResult) /\ UNCHANGED <<replay_vars, live_vars, sweep_vars, shutdown_vars>>

SpecWalk == WalkInit /\ [][WalkNext]_vars

OppositeSide(side) == IF side = "bid" THEN "ask" ELSE "bid"

\* A step that is a call of execute_trade_on_book on the book last_op'.id.
IsWalkStep == last_op = NoOp /\ last_op'.op = "walk"

WalkFrameStep ==
    IsWalkStep =>
        /\ \A j \in DOMAIN order_books :
               j # last_op'.id => order_books'[j] = order_books[j]
        /\ SideMap(order_books'[last_op'.id], OppositeSide(last_op'.side))
               = SideMap(order_books[last_op'.id], OppositeSide(last_op'.side))
        /\ (last_op'.size <= 0 \/ SideMap(order_books[last_op'.id], last_op'.side) = EmptyMap) =>
               /\ last_op'.filled = 0
               /\ last_op'.avg = RatZero
               /\ order_books' = order_books

\* C40: execute_trade_on_book changes only the side it hits of the book it is
\* given: the other side of that book and every other book are as before, and
\* a call with a size <= 0 or on an empty side returns (0, 0) and changes
\* nothing.
C40_WalkChangesOnlyHitSide == [][WalkFrameStep]_vars

\* A walk has consumed levels of one side of a book whose other side holds
\* levels, while another book holds levels too.
C40_Witness ==
    /\ last_op.op = "walk"
    /\ last_op.filled > 0
    /\ SideMap(order_books[last_op.id], last_op.side) # SideMap(last_op.before, last_op.side)
    /\ SideMap(last_op.before, OppositeSide(last_op.side)) # EmptyMap
    /\ \E j \in DOMAIN order_books : j # last_op.id /\ order_books[j] # OrderBook_init

\* A walk with a positive size has been run on an empty side of a book whose
\* other side holds levels.
WalkOnEmptySide ==
    /\ last_op.op = "walk"
    /\ last_op.size > 0
    /\ SideMap(last_op.before, last_op.side) = EmptyMap
    /\ SideMap(last_op.before, OppositeSide(last_op.side)) # EmptyMap

\* A walk with a size <= 0 has been run on a side that holds levels.
WalkOfNonPositiveSize ==
    /\ last_op.op = "walk"
    /\ last_op.size <= 0
    /\ SideMap(last_op.before, last_op.side) # EmptyMap

====
